---- MODULE Spec2Model ----
(***************************************************************************)
(* A model of the admission, validation, audit and error-shaping code of   *)
(* mcp_google_sheets (security.py) and of the HTTP entry points that       *)
(* answer callers (http_server.py, http_sse_server.py,                     *)
(* simple_mcp_server.py).                                                  *)
(*                                                                         *)
(* Time is time.time() read as an integer number of ticks; the clock never *)
(* runs backwards.  Strings are TLC strings, compared and cut by Len,      *)
(* SubSeq and \o, so substring tests are computed on the characters.       *)
(***************************************************************************)
EXTENDS Integers, Sequences, FiniteSets, TLC

\* ------------------------------------------------------------------ bounds
MaxTime == 4
MaxCalls == 2
MaxWindow == 2
NThreads == 3
MaxEvents == 2
MaxPhrases == 2
MaxSheets == 2
MaxLimit == 3
MaxDepth == 2

VARIABLES
  now,          \* the clock: what time.time() returns
  max_calls,    \* RateLimiter.max_calls
  time_window,  \* RateLimiter.time_window
  calls,        \* RateLimiter.calls, the deque of recorded timestamps
  admitted,     \* history: the timestamps of the calls is_allowed() admitted
                \* that are younger than time_window
  last,         \* history: the most recent operation and what it returned
  pc,           \* per thread: its position inside is_allowed()
  t_now,        \* per thread: the local variable now of is_allowed()
  t_ret,        \* per thread: what is_allowed() returned
  stack,        \* the decorators applied to the operation, outermost first
  events,       \* security_auditor.events
  listed,       \* history: the last call of log_event or get_events, and
                \* what get_events returned
  resp,         \* history: the last call of the operation: its inputs, what
                \* the caller got, how often the function body ran and with
                \* which arguments
  err,          \* the error last given to handle_google_api_error
  error_details,   \* the dictionary it returned
  err2,         \* the error a second caller last gave to it
  error_details2,  \* the dictionary the second caller got
  server,            \* the server module that runs
  SHEETS_AVAILABLE,  \* its SHEETS_AVAILABLE
  spreadsheet_context,  \* its spreadsheet_context is not None
  phase,             \* "imported", "running" (inside lifespan) or "stopped"
  response,          \* the last response sent, and history of how it came
                     \* about
  data,              \* the value given to sanitize_data
  clean,             \* sanitize_data(data)
  clean2,            \* sanitize_data(clean)
  global_calls,      \* rate_limiter.calls, the deque of the global limiter
  registry,          \* the operation registry: name -> handler
  reg,               \* history: the last register or resolve and its result
  validated          \* history: the last call checked by validate_inputs

limVars == <<now, max_calls, time_window, calls, admitted, last>>
thrVars == <<pc, t_now, t_ret>>
gwVars == <<stack, events, resp, listed>>
ehVars == <<err, error_details, err2, error_details2>>
epVars == <<server, SHEETS_AVAILABLE, spreadsheet_context, phase, response>>
sdVars == <<data, clean, clean2>>
regVars == <<registry, reg>>
vars == <<limVars, thrVars, gwVars, ehVars, epVars, sdVars, global_calls, regVars, validated>>

\* ------------------------------------------------------ OperationRegistry
\* The registry of operations (spec 4.6).  The handlers are registered in
\* server.py, which is not among the source files; register is modelled
\* from the specification, resolve as the lookup call_tool makes.
ToolNames == {"list_sheets", "get_sheet_data", "drop_database"}
Handlers == {"handler_a", "handler_b"}

NoReg == [op |-> "none", name |-> "", handler |-> "", result |-> ""]

InitRegistry ==
  /\ registry = [n \in {} |-> ""]
  /\ reg = NoReg

\* the mutant of register: a second registration replaces the first
RegisterOverwrites(r, name, handler) ==
  [registry |-> [n \in DOMAIN r \cup {name} |-> IF n = name THEN handler ELSE r[n]],
   result |-> "ok"]

\* register(descriptor): fails if the name is already present
register(r, name, handler) ==
  IF name \in DOMAIN r
  THEN [registry |-> r, result |-> "error: already registered"]
  ELSE [registry |-> [n \in DOMAIN r \cup {name} |-> IF n = name THEN handler ELSE r[n]],
        result |-> "ok"]

\* resolve(name): the handler, or NotFound
resolve(r, name) == IF name \notin DOMAIN r THEN "NotFound" ELSE r[name]

Register(name, handler) ==
  /\ \E x \in {register(registry, name, handler)} :
       /\ registry' = x.registry
       /\ reg' = [op |-> "register", name |-> name, handler |-> handler,
                  result |-> x.result]
  /\ UNCHANGED <<limVars, thrVars, gwVars, ehVars, epVars, sdVars, global_calls, validated>>

Resolve(name) ==
  /\ reg' = [op |-> "resolve", name |-> name, handler |-> "",
             result |-> resolve(registry, name)]
  /\ UNCHANGED <<registry, limVars, thrVars, gwVars, ehVars, epVars, sdVars, global_calls, validated>>

NextRegistry ==
  \/ \E n \in ToolNames, h \in Handlers : Register(n, h)
  \/ \E n \in ToolNames : Resolve(n)

\* nothing checked yet
NoValidated ==
  [validations |-> <<>>, kwargs |-> [k \in {} |-> ""], error |-> "",
   invoked |-> FALSE, response |-> [error_type |-> "", message |-> ""]]

\* ------------------------------------------------------------ RateLimiter
Threads == 1..NThreads

RECURSIVE EvictStrict(_, _, _)
\* the mutant of the eviction loop: a timestamp exactly time_window old stays
EvictStrict(c, t, w) ==
  IF c # <<>> /\ Head(c) < t - w THEN EvictStrict(Tail(c), t, w) ELSE c

RECURSIVE EvictExpired(_, _, _)
\* while self.calls and self.calls[0] <= now - self.time_window: popleft()
EvictExpired(c, t, w) ==
  IF c # <<>> /\ Head(c) <= t - w THEN EvictExpired(Tail(c), t, w) ELSE c

\* the mutant of is_allowed: the limit test lets one call too many through
IsAllowedOffByOne(c, t, n, w) ==
  LET e == EvictExpired(c, t, w)
  IN IF Len(e) > n THEN [allowed |-> FALSE, calls |-> e]
                   ELSE [allowed |-> TRUE, calls |-> Append(e, t)]

\* the mutant of is_allowed: a denied call is recorded as well
IsAllowedRecordsDenied(c, t, n, w) ==
  LET e == EvictExpired(c, t, w)
  IN IF Len(e) >= n THEN [allowed |-> FALSE, calls |-> Append(e, t)]
                    ELSE [allowed |-> TRUE, calls |-> Append(e, t)]

\* RateLimiter.is_allowed at time t: what it returns and the deque it leaves
IsAllowedAt(c, t, n, w) ==
  LET e == EvictExpired(c, t, w)
  IN IF Len(e) >= n THEN [allowed |-> FALSE, calls |-> e]
                    ELSE [allowed |-> TRUE, calls |-> Append(e, t)]

Max(a, b) == IF a >= b THEN a ELSE b
Min(a, b) == IF a <= b THEN a ELSE b

\* the mutant of remaining_calls: a timestamp exactly time_window old stays
RemainingCallsKeepsBoundary(c, t, n, w) ==
  LET e == EvictStrict(c, t, w)
  IN [remaining |-> Max(0, n - Len(e)), calls |-> e]

\* RateLimiter.remaining_calls at time t
RemainingCallsAt(c, t, n, w) ==
  LET e == EvictExpired(c, t, w)
  IN [remaining |-> Max(0, n - Len(e)), calls |-> e]

\* the last call of the limiter: its result, and the deque it found (before)
NoOp == [op |-> "none", allowed |-> FALSE, remaining |-> 0, before |-> <<>>]

\* a fresh limiter RateLimiter(max_calls, time_window) with max_calls in N
\* and time_window in W
InitLimiterWith(N, W) ==
  /\ now = 0
  /\ max_calls \in N
  /\ time_window \in W
  /\ calls = <<>>
  /\ admitted = <<>>
  /\ last = NoOp
  /\ global_calls = <<>>
  /\ InitRegistry
  /\ validated = NoValidated

InitLimiter == InitLimiterWith(1..MaxCalls, 1..MaxWindow)

InitThreads ==
  /\ pc = [t \in Threads |-> "idle"]
  /\ t_now = [t \in Threads |-> 0]
  /\ t_ret = [t \in Threads |-> "none"]

\* the admitted timestamps of h that lie in the trailing window (t - w, t]
InWindow(h, t, w) == SelectSeq(h, LAMBDA x : x > t - w)

\* the clock advances between calls
Tick ==
  /\ now < MaxTime
  /\ now' = now + 1
  /\ admitted' = InWindow(admitted, now + 1, time_window)
  /\ UNCHANGED <<max_calls, time_window, calls, last, thrVars, gwVars, ehVars, epVars, sdVars, global_calls, regVars, validated>>

\* one call of rate_limiter.is_allowed()
IsAllowed ==
  LET r == IsAllowedAt(calls, now, max_calls, time_window)
  IN /\ calls' = r.calls
     /\ admitted' = IF r.allowed THEN Append(admitted, now) ELSE admitted
     /\ last' = [NoOp EXCEPT !.op = "is_allowed", !.allowed = r.allowed,
                             !.before = calls]
     /\ UNCHANGED <<now, max_calls, time_window, thrVars, gwVars, ehVars, epVars, sdVars, global_calls, regVars, validated>>

\* one call of rate_limiter.remaining_calls()
RemainingCalls ==
  LET r == RemainingCallsAt(calls, now, max_calls, time_window)
  IN /\ calls' = r.calls
     /\ last' = [NoOp EXCEPT !.op = "remaining_calls", !.remaining = r.remaining,
                             !.before = calls]
     /\ UNCHANGED <<now, max_calls, time_window, admitted, thrVars, gwVars, ehVars, epVars, sdVars, global_calls, regVars, validated>>

NextLimiter == Tick \/ IsAllowed \/ RemainingCalls


\* ------------------------------------- is_allowed() called from threads
\* RateLimiter takes no lock, so the statements of is_allowed() of several
\* threads interleave: reading the clock, each test of the eviction loop,
\* each popleft(), the limit test and the append are separate steps.

\* now = time.time()
TBegin(t) ==
  /\ pc[t] = "idle"
  /\ pc' = [pc EXCEPT ![t] = "evict"]
  /\ t_now' = [t_now EXCEPT ![t] = now]
  /\ UNCHANGED <<limVars, t_ret, gwVars, ehVars, epVars, sdVars, global_calls, regVars, validated>>

\* while self.calls and self.calls[0] <= now - self.time_window
TEvictTest(t) ==
  /\ pc[t] = "evict"
  /\ pc' = [pc EXCEPT ![t] =
       IF calls # <<>> /\ Head(calls) <= t_now[t] - time_window
       THEN "pop" ELSE "check"]
  /\ UNCHANGED <<limVars, t_now, t_ret, gwVars, ehVars, epVars, sdVars, global_calls, regVars, validated>>

\* self.calls.popleft(): IndexError when another thread emptied the deque
TPop(t) ==
  /\ pc[t] = "pop"
  /\ IF calls = <<>>
     THEN /\ pc' = [pc EXCEPT ![t] = "done"]
          /\ t_ret' = [t_ret EXCEPT ![t] = "IndexError"]
          /\ UNCHANGED calls
     ELSE /\ calls' = Tail(calls)
          /\ pc' = [pc EXCEPT ![t] = "evict"]
          /\ UNCHANGED t_ret
  /\ UNCHANGED <<now, max_calls, time_window, admitted, last, t_now, gwVars, ehVars, epVars, sdVars, global_calls, regVars, validated>>

\* if len(self.calls) >= self.max_calls: return False
TCheck(t) ==
  /\ pc[t] = "check"
  /\ IF Len(calls) >= max_calls
     THEN /\ pc' = [pc EXCEPT ![t] = "done"]
          /\ t_ret' = [t_ret EXCEPT ![t] = "False"]
     ELSE /\ pc' = [pc EXCEPT ![t] = "record"]
          /\ UNCHANGED t_ret
  /\ UNCHANGED <<limVars, t_now, gwVars, ehVars, epVars, sdVars, global_calls, regVars, validated>>

\* self.calls.append(now); return True
TRecord(t) ==
  /\ pc[t] = "record"
  /\ calls' = Append(calls, t_now[t])
  /\ admitted' = Append(admitted, t_now[t])
  /\ pc' = [pc EXCEPT ![t] = "done"]
  /\ t_ret' = [t_ret EXCEPT ![t] = "True"]
  /\ UNCHANGED <<now, max_calls, time_window, last, t_now, gwVars, ehVars, epVars, sdVars, global_calls, regVars, validated>>

NextThreads ==
  \/ Tick
  \/ \E t \in Threads : TBegin(t)
  \/ \E t \in Threads : TEvictTest(t)
  \/ \E t \in Threads : TPop(t)
  \/ \E t \in Threads : TCheck(t)
  \/ \E t \in Threads : TRecord(t)


\* ------------------------------------------------- strings and validators
HasChar(s, c) == \E i \in 1..Len(s) : SubSeq(s, i, i) = c

HasAnyChar(s, cs) == \E c \in cs : HasChar(s, c)

\* s[:n]
Trunc(s, n) == SubSeq(s, 1, Min(Len(s), n))

\* InputValidator.validate_spreadsheet_id (the values here are all str; the
\* NUL character of dangerous_chars has no TLA+ string literal)
validate_spreadsheet_id(s) ==
  /\ s # ""
  /\ ~(Len(s) < 20 \/ Len(s) > 100)
  /\ ~HasAnyChar(s, {"<", ">", "\"", "'", "&", "\r", "\n"})

\* InputValidator.validate_sheet_name
validate_sheet_name(s) ==
  /\ s # ""
  /\ ~(Len(s) < 1 \/ Len(s) > 100)
  /\ ~HasAnyChar(s, {"[", "]", "*", "?", ":", "\\", "/"})

UpperLetters == "ABCDEFGHIJKLMNOPQRSTUVWXYZ"
LowerLetters == "abcdefghijklmnopqrstuvwxyz"
Digits == "0123456789"

\* the characters of a string, as a set
Chars(s) == {SubSeq(s, i, i) : i \in 1..Len(s)}

\* re.match, by the set of positions of s the pattern can have reached:
\* one character of the class cs
Step(cs, s, P) == {p + 1 : p \in {q \in P : q <= Len(s) /\ SubSeq(s, q, q) \in cs}}

\* [cs]+
RECURSIVE OneOrMore(_, _, _)
OneOrMore(cs, s, P) ==
  LET n == Step(cs, s, P)
  IN IF n = {} THEN {} ELSE n \cup OneOrMore(cs, s, n)

\* $: the end of the string, or just before a newline that ends it
AtEnd(s, P) ==
  \E p \in P : p = Len(s) + 1 \/ (p = Len(s) /\ SubSeq(s, p, p) = "\n")

\* [A-Z]+\d+
CellRef(s, P) == OneOrMore(Chars(Digits), s, OneOrMore(Chars(UpperLetters), s, P))

\* InputValidator.validate_range:
\* ^[A-Za-z0-9_]+!?[A-Z]+\d+(:[A-Z]+\d+)?$
validate_range(s) ==
  /\ s # ""
  /\ LET word == Chars(UpperLetters) \cup Chars(LowerLetters) \cup Chars(Digits) \cup {"_"}
         token == OneOrMore(word, s, {1})
         sheet == token \cup Step({"!"}, s, token)
         first == CellRef(s, sheet)
     IN AtEnd(s, first \cup CellRef(s, Step({":"}, s, first)))

\* InputValidator.validate_email:
\* ^[a-zA-Z0-9._%+-]+@[a-zA-Z0-9.-]+\.[a-zA-Z]{2,}$
validate_email(s) ==
  /\ s # ""
  /\ LET letters == Chars(UpperLetters) \cup Chars(LowerLetters)
         alnum == letters \cup Chars(Digits)
         local == OneOrMore(alnum \cup {".", "_", "%", "+", "-"}, s, {1})
         domain == OneOrMore(alnum \cup {".", "-"}, s, Step({"@"}, s, local))
         dot == Step({"."}, s, domain)
     IN AtEnd(s, OneOrMore(letters, s, Step(letters, s, dot)))

\* ------------------------------------------------------ the audit log
\* str(args) of a tuple of str
RECURSIVE ReprItems(_)
ReprItems(a) ==
  IF a = <<>> THEN ""
  ELSE "'" \o Head(a) \o "'" \o
       (IF Tail(a) = <<>> THEN "" ELSE ", " \o ReprItems(Tail(a)))

ReprArgs(a) ==
  IF Len(a) = 1 THEN "(" \o ReprItems(a) \o ",)" ELSE "(" \o ReprItems(a) \o ")"

\* the details dictionary audit_log builds before it calls the function
AuditDetails(req) ==
  [function |-> "op",
   args |-> Trunc(ReprArgs(req.args), 200),
   kwargs |-> [k \in DOMAIN req.kwargs |-> Trunc(req.kwargs[k], 100)]]

\* the exception a failing log_event raises
AuditFailure == [exc |-> "OSError", msg |-> "log write failed", origin |-> "audit"]

\* the mutant of log_event: the new event is put in front of the others
LogEventPrepends(evs, t, event_type, details, mode) ==
  LET event == [timestamp |-> t, type |-> event_type,
                details |-> details, user_id |-> "None"]
  IN [events |-> IF mode = "append" THEN evs ELSE <<event>> \o evs,
      raised |-> mode # "none"]

\* SecurityAuditor.log_event(event_type, details) at time t.  mode says where
\* the call fails: "none" (it returns), "append" (before the event is
\* appended) or "logger" (in logger.info, after the event is appended).
log_event(evs, t, event_type, details, mode) ==
  LET event == [timestamp |-> t, type |-> event_type,
                details |-> details, user_id |-> "None"]
  IN [events |-> IF mode = "append" THEN evs ELSE Append(evs, event),
      raised |-> mode # "none"]

\* --------------------------------------------------------- the inputs
GoodId == "1BxiMVs0XRA5nFMdKvBd"

\* a value longer than the 100 characters audit_log keeps of a keyword argument
LongValue == "012345678901234567890123456789012345678901234567890123456789012345678901234567890123456789012345678901234567890123456789"

\* the call with LongValue for a parameter that no validation is declared for
LongRequest == [kwargs |-> [spreadsheet_id |-> GoodId, note |-> LongValue], args |-> <<>>]

\* the calls made: each declared parameter valid or invalid, passed by
\* keyword or by position
Requests ==
  { [kwargs |-> [spreadsheet_id |-> GoodId, sheet_name |-> "Sheet1"], args |-> <<>>],
    [kwargs |-> [spreadsheet_id |-> GoodId, sheet_name |-> "bad[name]"], args |-> <<>>],
    [kwargs |-> [spreadsheet_id |-> "short", sheet_name |-> "bad[name]"], args |-> <<>>],
    [kwargs |-> [sheet_name |-> "Sheet1"], args |-> <<GoodId>>],
    [kwargs |-> [spreadsheet_id |-> GoodId], args |-> <<"bad[name]">>],
    [kwargs |-> [k \in {} |-> ""], args |-> <<GoodId, "Sheet1">>],
    [kwargs |-> [sheet_name |-> "Sheet1"], args |-> <<"short">>],
    LongRequest }

\* the calls made of the operation decorated with audit_log
AuditedRequests ==
  { [kwargs |-> [spreadsheet_id |-> GoodId, sheet_name |-> "Sheet1"], args |-> <<>>],
    [kwargs |-> [spreadsheet_id |-> GoodId, sheet_name |-> "bad[name]"], args |-> <<>>],
    [kwargs |-> [spreadsheet_id |-> GoodId], args |-> <<"bad[name]">>],
    LongRequest }

\* what the function body does: it returns, or raises with this message
FuncBehaviours == {"return", "Quota exceeded for user"}

\* where the two log_event calls of one audit_log call fail
FailModes == {<<"none", "none">>, <<"logger", "none">>, <<"append", "none">>,
              <<"logger", "logger">>}

NoFail == <<"none", "none">>

DeclaredValidations ==
  << [name |-> "spreadsheet_id", type |-> "spreadsheet_id"],
     [name |-> "sheet_name", type |-> "sheet_name"] >>

NoReq == [kwargs |-> [k \in {} |-> ""], args |-> <<>>]

\* ------------------------------------------------ the wrapped operation
Returned(v) == [kind |-> "return", value |-> v, exc |-> "", msg |-> "", origin |-> ""]

Raised(e) == [kind |-> "raise", value |-> "", exc |-> e.exc, msg |-> e.msg, origin |-> e.origin]

\* the function body: it runs, and returns or raises as inp.fb says
FuncBody(inp, st) ==
  [st |-> [st EXCEPT !.invoked = st.invoked + 1, !.received = inp.req],
   out |-> IF inp.fb = "return"
           THEN Returned("result")
           ELSE Raised([exc |-> "Exception", msg |-> inp.fb, origin |-> "handler"])]

\* the check validate_inputs makes for one declared parameter: "" when it
\* passes, else the message of the ValueError
ValidationError(v, kwargs) ==
  IF v.name \notin DOMAIN kwargs THEN ""
  ELSE LET value == kwargs[v.name]
       IN CASE v.type = "spreadsheet_id" ->
                 IF ~validate_spreadsheet_id(value)
                 THEN "Invalid spreadsheet_id: " \o value ELSE ""
            [] v.type = "sheet_name" ->
                 IF ~validate_sheet_name(value)
                 THEN "Invalid sheet_name: " \o value ELSE ""
            [] v.type = "range" ->
                 IF ~validate_range(value)
                 THEN "Invalid range: " \o value ELSE ""
            [] v.type = "email" ->
                 IF ~validate_email(value)
                 THEN "Invalid email: " \o value ELSE ""
            [] OTHER -> ""

\* the first ValueError of validate_inputs' loop over validations.items()
RECURSIVE FirstValidationError(_, _)
FirstValidationError(vs, kwargs) ==
  IF vs = <<>> THEN ""
  ELSE LET m == ValidationError(Head(vs), kwargs)
       IN IF m # "" THEN m ELSE FirstValidationError(Tail(vs), kwargs)

RateLimitMessage(n, w) ==
  "Rate limit exceeded: " \o ToString(n) \o " calls per " \o ToString(w) \o " seconds"

\* the checks of validate_inputs.wrapper for each call, the messages of
\* rate_limit.wrapper and the details of audit_log.wrapper, computed once
ValidateInputs ==
  [req \in Requests |-> FirstValidationError(DeclaredValidations, req.kwargs)]

RateLimitMessages ==
  [n \in 1..MaxCalls, w \in 1..MaxWindow |-> RateLimitMessage(n, w)]

AuditDetailsOf == [req \in Requests |-> AuditDetails(req)]

\* Wrapped(k, inp, st): decorators k.. of the stack around the function body,
\* called with inp.req at time inp.t.  st holds the state the call changes
\* (calls, events) and the history of this call: admitted, invoked, received,
\* denied (is_allowed() returned False), rejected (validate_inputs found an
\* invalid parameter), audit_failed (a log_event raised) and audited (what
\* audit_log saw the function do).  st.n and st.w are the limiter's max_calls
\* and time_window.
RECURSIVE Wrapped(_, _, _)

\* the mutant of rate_limit.wrapper: the function is called although
\* is_allowed() returned False
RateLimitWrapperCallsAnyway(k, inp, st) ==
  LET r == IsAllowedAt(st.calls, inp.t, st.n, st.w)
      st1 == [st EXCEPT !.calls = r.calls,
                        !.denied = ~r.allowed,
                        !.admitted = IF r.allowed THEN Append(st.admitted, inp.t)
                                     ELSE st.admitted]
  IN Wrapped(k + 1, inp, st1)

\* rate_limit.wrapper
RateLimitWrapper(k, inp, st) ==
  LET r == IsAllowedAt(st.calls, inp.t, st.n, st.w)
      st1 == [st EXCEPT !.calls = r.calls,
                        !.denied = ~r.allowed,
                        !.admitted = IF r.allowed THEN Append(st.admitted, inp.t)
                                     ELSE st.admitted]
  IN IF ~r.allowed
     THEN [st |-> st1,
           out |-> Raised([exc |-> "Exception",
                           msg |-> RateLimitMessages[st.n, st.w],
                           origin |-> "rate_limit"])]
     ELSE Wrapped(k + 1, inp, st1)

\* validate_inputs.wrapper
ValidateInputsWrapper(k, inp, st) ==
  LET m == ValidateInputs[inp.req]
  IN IF m # ""
     THEN [st |-> [st EXCEPT !.rejected = TRUE],
           out |-> Raised([exc |-> "ValueError", msg |-> m,
                           origin |-> "validation"])]
     ELSE Wrapped(k + 1, inp, st)

\* audit_log.wrapper around a function that did inner
AuditLogAround(inp, inner) ==
  LET details == AuditDetailsOf[inp.req]
      seen == [inner.st EXCEPT !.audited = inner.out]
      ok == [function |-> details.function, args |-> details.args,
             kwargs |-> details.kwargs, success |-> TRUE]
      ko(msg) == [function |-> details.function, args |-> details.args,
                  kwargs |-> details.kwargs, success |-> FALSE,
                  error |-> msg]
  IN IF inner.out.kind = "return"
     THEN \* result = func(...); log_event(success True); return result
       LET l1 == log_event(seen.events, inp.t, "tool_call", ok, inp.fm[1])
       IN IF ~l1.raised
          THEN [st |-> [seen EXCEPT !.events = l1.events], out |-> inner.out]
          ELSE \* except Exception as e: log_event(success False); raise
            LET l2 == log_event(l1.events, inp.t, "tool_call", ko(AuditFailure.msg), inp.fm[2])
            IN [st |-> [seen EXCEPT !.events = l2.events, !.audit_failed = TRUE],
                out |-> Raised(AuditFailure)]
     ELSE \* except Exception as e: log_event(success False); raise
       LET l1 == log_event(seen.events, inp.t, "tool_call", ko(inner.out.msg), inp.fm[1])
       IN [st |-> [seen EXCEPT !.events = l1.events, !.audit_failed = l1.raised],
           out |-> IF l1.raised THEN Raised(AuditFailure) ELSE inner.out]

\* the mutant of audit_log.wrapper: the function is given the copy of the
\* keyword arguments made for the audit event
AuditLogWrapperPassesCopy(k, inp, st) ==
  LET res == CHOOSE r \in { AuditLogAround(inp, inner) :
                              inner \in {Wrapped(k + 1, inp, st)} } : TRUE
  IN IF res.st.invoked = 0 THEN res
     ELSE [res EXCEPT !.st.received =
             [kwargs |-> AuditDetailsOf[inp.req].kwargs, args |-> inp.req.args]]

\* audit_log.wrapper
AuditLogWrapper(k, inp, st) ==
  CHOOSE res \in { AuditLogAround(inp, inner) :
                     inner \in {Wrapped(k + 1, inp, st)} } : TRUE

Wrapped(k, inp, st) ==
  IF k > Len(inp.stack) THEN FuncBody(inp, st)
  ELSE CASE inp.stack[k] = "rate_limit" -> RateLimitWrapper(k, inp, st)
         [] inp.stack[k] = "validate_inputs" -> ValidateInputsWrapper(k, inp, st)
         [] inp.stack[k] = "audit_log" -> AuditLogWrapper(k, inp, st)

RECURSIVE Perms(_)
Perms(S) ==
  IF S = {} THEN {<<>>}
  ELSE UNION { { <<x>> \o p : p \in Perms(S \ {x}) } : x \in S }

\* every way of stacking each decorator of D at most once
Stacks(D) == UNION { Perms(S) : S \in SUBSET D }

NoOut == [kind |-> "none", value |-> "", exc |-> "", msg |-> "", origin |-> ""]

NoResp == [req |-> NoReq, fb |-> "return", fm |-> NoFail, out |-> NoOut,
           invoked |-> 0, received |-> NoReq, before |-> 0, denied |-> FALSE,
           rejected |-> FALSE, audit_failed |-> FALSE, audited |-> NoOut]

NoListed == [op |-> "none", event_type |-> "None", limit |-> 0, result |-> <<>>]

InitGatewayWith(D) ==
  /\ stack \in Stacks(D)
  /\ events = <<>>
  /\ resp = NoResp
  /\ listed = NoListed

\* one call of the decorated operation
Call(req, fb, fm) ==
  LET inp == [req |-> req, fb |-> fb, fm |-> fm, t |-> now,
              stack |-> stack]
      st == [calls |-> calls, events |-> events, admitted |-> admitted,
             n |-> max_calls, w |-> time_window,
             invoked |-> 0, received |-> NoReq, denied |-> FALSE,
             rejected |-> FALSE, audit_failed |-> FALSE, audited |-> NoOut]
  IN \E r \in {Wrapped(1, inp, st)} :
     /\ Len(events) < MaxEvents
     /\ calls' = r.st.calls
     /\ events' = r.st.events
     /\ admitted' = r.st.admitted
     /\ resp' = [req |-> req, fb |-> fb, fm |-> fm, out |-> r.out,
                 invoked |-> r.st.invoked, received |-> r.st.received,
                 before |-> Len(calls), denied |-> r.st.denied,
                 rejected |-> r.st.rejected,
                 audit_failed |-> r.st.audit_failed, audited |-> r.st.audited]
     /\ UNCHANGED <<now, max_calls, time_window, last, stack, listed, thrVars, ehVars, epVars, sdVars, global_calls, regVars, validated>>

\* calls of an operation decorated with validate_inputs and rate_limit
NextGateway ==
  \/ Tick
  \/ \E req \in Requests, fb \in FuncBehaviours : Call(req, fb, NoFail)

\* rate_limiter = RateLimiter(max_calls=100, time_window=60)
GlobalMaxCalls == 100
GlobalWindow == 60

\* a direct call of rate_limiter.is_allowed()
GlobalIsAllowed ==
  /\ global_calls' = IsAllowedAt(global_calls, now, GlobalMaxCalls, GlobalWindow).calls
  /\ UNCHANGED <<limVars, thrVars, gwVars, ehVars, epVars, sdVars, regVars, validated>>

\* calls of an operation decorated with rate_limit, and of the global limiter
NextGlobal ==
  \/ GlobalIsAllowed
  \/ \E req \in Requests, fb \in FuncBehaviours : Call(req, fb, NoFail)

\* calls of an operation decorated with audit_log as well, whose log_event
\* calls may fail
NextAudit ==
  \E req \in AuditedRequests, fb \in FuncBehaviours, fm \in FailModes :
    Call(req, fb, fm)

\* ---------------------------------------------------- SecurityAuditor
\* seq[start:] of Python
SliceFrom(seq, start) ==
  LET n == Len(seq)
      from == IF start < 0 THEN Max(n + start, 0) ELSE Min(start, n)
  IN SubSeq(seq, from + 1, n)

\* SecurityAuditor.get_events(event_type, limit); event_type "None" is None
get_events(evs, event_type, limit) ==
  LET filtered == IF event_type \notin {"None", ""}
                  THEN SelectSeq(evs, LAMBDA e : e.type = event_type)
                  ELSE evs
  IN SliceFrom(filtered, -limit)

EventTypes == {"tool_call", "auth"}

EventDetails == {[action |-> "read"], [action |-> "share"]}

\* a call of security_auditor.log_event
LogEvent(event_type, details, mode) ==
  /\ Len(events) < MaxEvents
  /\ \E l \in {log_event(events, now, event_type, details, mode)} :
       /\ events' = l.events
       /\ listed' = [op |-> "log_event", event_type |-> event_type, limit |-> 0,
                     result |-> <<>>]
  /\ UNCHANGED <<stack, resp, limVars, thrVars, ehVars, epVars, sdVars, global_calls, regVars, validated>>

\* a call of security_auditor.get_events
GetEvents(event_type, limit) ==
  /\ listed' = [op |-> "get_events", event_type |-> event_type, limit |-> limit,
                result |-> get_events(events, event_type, limit)]
  /\ UNCHANGED <<stack, events, resp, limVars, thrVars, ehVars, epVars, sdVars, global_calls, regVars, validated>>

NextAuditor ==
  \/ Tick
  \/ \E ty \in EventTypes, d \in EventDetails, m \in {"none", "append", "logger"} :
       LogEvent(ty, d, m)
  \/ \E ty \in EventTypes \cup {"None", ""}, l \in 0..MaxLimit : GetEvents(ty, l)

\* ------------------------------------------------------- ErrorHandler
\* str.lower() of one character
LowerChar(c) ==
  IF \E i \in 1..26 : SubSeq(UpperLetters, i, i) = c
  THEN LET i == CHOOSE j \in 1..26 : SubSeq(UpperLetters, j, j) = c
       IN SubSeq(LowerLetters, i, i)
  ELSE c

\* str.lower()
RECURSIVE Lower(_)
Lower(s) ==
  IF s = "" THEN ""
  ELSE LowerChar(SubSeq(s, 1, 1)) \o Lower(SubSeq(s, 2, Len(s)))

\* sub in s
Contains(s, sub) ==
  \E i \in 1..(Len(s) - Len(sub) + 1) : SubSeq(s, i, i + Len(sub) - 1) = sub

\* the mutant of handle_google_api_error: an unknown error's text is passed on
HandleLeaksUnknown(error) ==
  LET error_str == Lower(error)
  IN IF Contains(error_str, "quota") \/ Contains(error_str, "limit")
     THEN [error_type |-> "google_api_error",
           message |-> "API quota exceeded. Please try again later.",
           retry_after |-> 60]
     ELSE IF Contains(error_str, "permission") \/ Contains(error_str, "forbidden")
     THEN [error_type |-> "google_api_error",
           message |-> "Insufficient permissions for this operation."]
     ELSE IF Contains(error_str, "not found")
     THEN [error_type |-> "google_api_error",
           message |-> "The requested resource was not found."]
     ELSE IF Contains(error_str, "invalid")
     THEN [error_type |-> "google_api_error",
           message |-> "Invalid request parameters."]
     ELSE [error_type |-> "google_api_error", message |-> error]

\* the mutant of handle_google_api_error: permission is tested before quota
HandlePermissionFirst(error) ==
  LET error_str == Lower(error)
  IN IF Contains(error_str, "permission") \/ Contains(error_str, "forbidden")
     THEN [error_type |-> "google_api_error",
           message |-> "Insufficient permissions for this operation."]
     ELSE IF Contains(error_str, "quota") \/ Contains(error_str, "limit")
     THEN [error_type |-> "google_api_error",
           message |-> "API quota exceeded. Please try again later.",
           retry_after |-> 60]
     ELSE IF Contains(error_str, "not found")
     THEN [error_type |-> "google_api_error",
           message |-> "The requested resource was not found."]
     ELSE IF Contains(error_str, "invalid")
     THEN [error_type |-> "google_api_error",
           message |-> "Invalid request parameters."]
     ELSE [error_type |-> "google_api_error",
           message |-> "An unexpected error occurred."]

\* ErrorHandler.handle_google_api_error(error), error being str(error)
handle_google_api_error(error) ==
  LET error_str == Lower(error)
  IN IF Contains(error_str, "quota") \/ Contains(error_str, "limit")
     THEN [error_type |-> "google_api_error",
           message |-> "API quota exceeded. Please try again later.",
           retry_after |-> 60]
     ELSE IF Contains(error_str, "permission") \/ Contains(error_str, "forbidden")
     THEN [error_type |-> "google_api_error",
           message |-> "Insufficient permissions for this operation."]
     ELSE IF Contains(error_str, "not found")
     THEN [error_type |-> "google_api_error",
           message |-> "The requested resource was not found."]
     ELSE IF Contains(error_str, "invalid")
     THEN [error_type |-> "google_api_error",
           message |-> "Invalid request parameters."]
     ELSE [error_type |-> "google_api_error",
           message |-> "An unexpected error occurred."]

\* ErrorHandler.handle_validation_error(error), error being str(error)
handle_validation_error(error) ==
  [error_type |-> "validation_error", message |-> error]

\* ErrorHandler.handle_rate_limit_error(error)
handle_rate_limit_error(error) ==
  [error_type |-> "rate_limit_error",
   message |-> "Too many requests. Please slow down.",
   retry_after |-> 60]

\* the texts of the errors raised: one phrase each
Phrases ==
  {"Quota exceeded for user", "rate LIMIT hit", "Permission denied",
   "403 Forbidden", "Sheet not found", "Invalid value",
   "totally unexpected boom", "NotFound: unlimited"}

\* the texts of chained errors: up to n phrases joined by ": "
RECURSIVE Chained(_)
Chained(n) ==
  IF n = 0 THEN {""}
  ELSE Phrases \cup { p \o ": " \o q : p \in Phrases, q \in Chained(n - 1) \ {""} }
       \cup {""}

RawErrors == Chained(MaxPhrases)

\* handle_google_api_error of every raw error, computed once
Handled == [e \in RawErrors |-> handle_google_api_error(e)]

NoDetails == [error_type |-> "", message |-> ""]

InitErrors ==
  /\ err = "" /\ error_details = NoDetails
  /\ err2 = "" /\ error_details2 = NoDetails

\* a caller's error is handled
HandleGoogleApiError(e) ==
  /\ err' = e
  /\ error_details' = Handled[e]
  /\ UNCHANGED <<err2, error_details2, limVars, thrVars, gwVars, epVars, sdVars, global_calls, regVars, validated>>

\* a second caller's error, of one phrase, is handled
HandleSecond(e) ==
  /\ err2' = e
  /\ error_details2' = Handled[e]
  /\ UNCHANGED <<err, error_details, limVars, thrVars, gwVars, epVars, sdVars, global_calls, regVars, validated>>

NextErrors ==
  \/ \E e \in RawErrors : HandleGoogleApiError(e)
  \/ \E e \in Phrases : HandleSecond(e)

\* ------------------------------------------------------- Python values
\* A Python value: a string, an integer, a boolean, None, a list, or a
\* dict whose items are kept in insertion order.
PyStr(s) == [t |-> "str", v |-> s]
PyInt(n) == [t |-> "int", v |-> n]
PyBool(b) == [t |-> "bool", v |-> b]
PyNone == [t |-> "none", v |-> 0]
PyList(xs) == [t |-> "list", v |-> xs]
PyDict(items) == [t |-> "dict", v |-> items]

HasKey(d, k) == \E i \in 1..Len(d.v) : d.v[i][1] = k

\* d.get(k, default)
DictGet(d, k, default) ==
  IF HasKey(d, k)
  THEN d.v[CHOOSE i \in 1..Len(d.v) : d.v[i][1] = k][2]
  ELSE default

\* not x
Falsy(x) ==
  CASE x.t = "str" -> x.v = ""
    [] x.t = "int" -> x.v = 0
    [] x.t = "bool" -> ~x.v
    [] x.t = "none" -> TRUE
    [] OTHER -> x.v = <<>>

\* str.strip() of a text whose only whitespace is the blank
RECURSIVE Strip(_)
Strip(s) ==
  IF s = "" THEN ""
  ELSE IF SubSeq(s, 1, 1) = " " THEN Strip(SubSeq(s, 2, Len(s)))
  ELSE IF SubSeq(s, Len(s), Len(s)) = " " THEN Strip(SubSeq(s, 1, Len(s) - 1))
  ELSE s

\* the escape json.dumps writes for one character of a string
EscapeChar(c) ==
  IF c = "\"" THEN "\\\""
  ELSE IF c = "\\" THEN "\\\\"
  ELSE IF c = "\n" THEN "\\n"
  ELSE c

RECURSIVE Escape(_)
Escape(s) ==
  IF Len(s) <= 1 THEN EscapeChar(s)
  ELSE LET h == Len(s) \div 2
       IN Escape(SubSeq(s, 1, h)) \o Escape(SubSeq(s, h + 1, Len(s)))

RECURSIVE Spaces(_)
Spaces(n) == IF n = 0 THEN "" ELSE " " \o Spaces(n - 1)

RECURSIVE Join(_, _)
Join(parts, sep) ==
  IF parts = <<>> THEN ""
  ELSE IF Len(parts) = 1 THEN parts[1]
  ELSE parts[1] \o sep \o Join(Tail(parts), sep)

\* json.dumps(x, indent=2), lvl being the depth of x in the document
RECURSIVE Dumps(_, _)
Dumps(x, lvl) ==
  CASE x.t = "str" -> "\"" \o Escape(x.v) \o "\""
    [] x.t = "int" -> ToString(x.v)
    [] x.t = "bool" -> IF x.v THEN "true" ELSE "false"
    [] x.t = "none" -> "null"
    [] x.t = "list" ->
         IF x.v = <<>> THEN "[]"
         ELSE "[\n"
              \o Join([i \in 1..Len(x.v) |->
                         Spaces(2 * (lvl + 1)) \o Dumps(x.v[i], lvl + 1)], ",\n")
              \o "\n" \o Spaces(2 * lvl) \o "]"
    [] x.t = "dict" ->
         IF x.v = <<>> THEN "{}"
         ELSE "{\n"
              \o Join([i \in 1..Len(x.v) |->
                         Spaces(2 * (lvl + 1)) \o "\"" \o Escape(x.v[i][1])
                         \o "\": " \o Dumps(x.v[i][2], lvl + 1)], ",\n")
              \o "\n" \o Spaces(2 * lvl) \o "}"

json_dumps(x) == Dumps(x, 0)

\* -------------------------------------------------------- sanitize_data
\* the character '\x00', which has no TLA+ literal, is written as the form
\* feed; no input of this model holds a form feed of its own
NUL == "\f"

StrLimit == 10000
ListLimit == 100
DictLimit == 50
Marker == "... [truncated]"

\* data.replace('\x00', '').replace('\r', '').replace('\n', ' ') of one
\* character
ReplaceChar(c) ==
  IF c = NUL THEN "" ELSE IF c = "\r" THEN "" ELSE IF c = "\n" THEN " " ELSE c

RECURSIVE ReplaceAll(_)
ReplaceAll(s) ==
  IF Len(s) <= 1 THEN ReplaceChar(s)
  ELSE LET h == Len(s) \div 2
       IN ReplaceAll(SubSeq(s, 1, h)) \o ReplaceAll(SubSeq(s, h + 1, Len(s)))

\* the mutant of the str branch: the marker is put in front
SanitizeStrMarkerFirst(s) ==
  LET d == ReplaceAll(s)
  IN IF Len(d) > StrLimit THEN Marker \o SubSeq(d, 1, StrLimit) ELSE d

RECURSIVE KeepLF(_)
KeepLF(s) ==
  IF Len(s) <= 1 THEN (IF s = "\n" THEN s ELSE ReplaceChar(s))
  ELSE LET h == Len(s) \div 2
       IN KeepLF(SubSeq(s, 1, h)) \o KeepLF(SubSeq(s, h + 1, Len(s)))

\* the mutant of the str branch: line feeds are left in
SanitizeStrKeepsLF(s) ==
  LET d == KeepLF(s)
  IN IF Len(d) > StrLimit THEN SubSeq(d, 1, StrLimit) \o Marker ELSE d

\* the str branch of sanitize_data
sanitize_str(s) ==
  LET d == ReplaceAll(s)
  IN IF Len(d) > StrLimit THEN SubSeq(d, 1, StrLimit) \o Marker ELSE d

\* sanitize_data(data)
RECURSIVE sanitize_data(_)
sanitize_data(x) ==
  CASE x.t = "str" -> PyStr(sanitize_str(x.v))
    [] x.t = "list" ->
         PyList([i \in 1..Min(Len(x.v), ListLimit) |-> sanitize_data(x.v[i])])
    [] x.t = "dict" ->
         PyDict([i \in 1..Min(Len(x.v), DictLimit) |->
                   <<x.v[i][1], sanitize_data(x.v[i][2])>>])
    [] OTHER -> x

\* s repeated n times
RECURSIVE Repeat(_, _)
Repeat(s, n) ==
  IF n = 0 THEN ""
  ELSE IF n % 2 = 1 THEN s \o Repeat(s, n - 1)
  ELSE LET h == Repeat(s, n \div 2) IN h \o h

ShortStrings == {"", "plain", "a" \o NUL \o "b\r\nc", "\n", Marker}

LongStrings ==
  {Repeat("a", n) : n \in {StrLimit - 1, StrLimit, StrLimit + 1}}
  \cup {Repeat("a", StrLimit) \o "\r",
        Repeat("a", StrLimit - 1) \o "\n" \o "bc",
        NUL \o Repeat("ab", StrLimit \div 2) \o "\n"}

SanitizeAtoms ==
  {PyStr(s) : s \in ShortStrings \cup LongStrings} \cup {PyInt(7), PyNone}

\* the values a long list or dictionary is filled with
Fillers == {PyStr("a\nb"), PyInt(7), PyList(<< PyStr("\r") >>)}

ListOf(n, x, y) == PyList([i \in 1..n |-> IF i < n THEN x ELSE y])
DictOf(n, x, y) ==
  PyDict([i \in 1..n |-> <<"k" \o ToString(i), IF i < n THEN x ELSE y>>])

Containers(V) ==
  {PyList(<< x >>) : x \in V}
  \cup {PyDict(<< <<"k\n", x>> >>) : x \in V}
  \cup {ListOf(n, x, y) : n \in {ListLimit, ListLimit + 1}, x \in Fillers,
                          y \in {PyStr("last\n")}}
  \cup {DictOf(n, x, y) : n \in {DictLimit, DictLimit + 1}, x \in Fillers,
                          y \in {PyStr("last\n")}}

\* the values nested at most d deep
RECURSIVE Nested(_)
Nested(d) ==
  IF d = 0 THEN SanitizeAtoms
  ELSE LET V == Nested(d - 1) IN V \cup Containers(V)

SanitizeInputs == Nested(MaxDepth)

Unset == [t |-> "unset", v |-> 0]

InitSanitizeWith(D) ==
  /\ data \in D
  /\ clean = Unset
  /\ clean2 = Unset

InitSanitize == InitSanitizeWith(SanitizeInputs)

\* clean = sanitize_data(data)
Sanitize ==
  /\ clean = Unset
  /\ clean' = sanitize_data(data)
  /\ UNCHANGED <<data, clean2, limVars, thrVars, gwVars, ehVars, epVars, global_calls, regVars, validated>>

\* clean2 = sanitize_data(clean)
SanitizeAgain ==
  /\ clean # Unset /\ clean2 = Unset
  /\ clean2' = sanitize_data(clean)
  /\ UNCHANGED <<data, clean, limVars, thrVars, gwVars, ehVars, epVars, global_calls, regVars, validated>>

NextSanitize == Sanitize \/ SanitizeAgain

\* ------------------------------------------------- outcomes of a callable
\* What running a piece of Python gives: a returned value, an HTTPException,
\* or another exception.  calls counts the backend (or tool handler) calls it
\* made and raw holds the texts of the exceptions those calls raised.
PyReturn(v, n, raw) ==
  [kind |-> "return", value |-> v, status |-> 200, msg |-> "", calls |-> n, raw |-> raw]
PyRaise(m, n, raw) ==
  [kind |-> "raise", value |-> PyNone, status |-> 500, msg |-> m, calls |-> n, raw |-> raw]
HTTPException(status_code, detail, n, raw) ==
  [kind |-> "http", value |-> PyNone, status |-> status_code, msg |-> detail,
   calls |-> n, raw |-> raw]

\* str(e): Starlette's HTTPException prints as "<status_code>: <detail>"
StrOfException(o) ==
  IF o.kind = "http" THEN ToString(o.status) \o ": " \o o.msg ELSE o.msg

\* --------------------------------------------------- the Google backend
BackendErrors == {"Quota exceeded for user", "Permission denied on file 1BxiMVs0"}

SheetTitles == <<"Sheet1", "Data", "Q3 Totals", "Archive">>

DriveFile(id, link) ==
  PyDict(<< <<"id", PyStr(id)>>, <<"name", PyStr("Budget")>> >>
       \o (IF link THEN << <<"webViewLink", PyStr("https://drive.example/" \o id)>> >>
           ELSE << >>)
       \o << <<"modifiedTime", PyStr("2024-05-01T10:00:00Z")>> >>)

\* what drive_service.files().list(...).execute() does
ListOutcomes ==
  {[ok |-> TRUE, error |-> "", value |-> PyDict(<< <<"files", PyList(fs)>> >>)] :
     fs \in {<< >>, <<DriveFile("f1", TRUE)>>,
             <<DriveFile("f1", FALSE), DriveFile("f2", TRUE)>>}}
  \cup {[ok |-> TRUE, error |-> "", value |-> PyDict(<< >>)]}
  \cup {[ok |-> FALSE, error |-> e, value |-> PyNone] : e \in BackendErrors}

SpreadsheetMeta(n) ==
  PyDict(<< <<"properties", PyDict(<< <<"title", PyStr("Budget 2024")>> >>)>>,
          <<"sheets", PyList([i \in 1..n |->
              PyDict(<< <<"properties",
                        PyDict(<< <<"title", PyStr(SheetTitles[i])>> >>)>> >>)])>> >>)

FileInfo(link) ==
  PyDict(<< <<"name", PyStr("Budget")>> >>
       \o (IF link THEN << <<"webViewLink", PyStr("https://drive.example/budget")>> >>
           ELSE << >>)
       \o << <<"modifiedTime", PyStr("2024-05-01T10:00:00Z")>> >>)

SheetValues == PyDict(<< <<"values", PyList(<< PyList(<< PyStr("a"), PyStr("b") >>) >>)>> >>)

\* what the calls of one fetch do: spreadsheets().get, files().get and
\* values().get of each sheet (TRUE: it answers, FALSE: it raises)
FetchBackends ==
  {[get |-> [ok |-> FALSE, error |-> e, value |-> PyNone],
    file |-> [ok |-> FALSE, error |-> e, value |-> PyNone],
    values |-> << >>] : e \in BackendErrors}
  \cup
  {[get |-> [ok |-> TRUE, error |-> "", value |-> SpreadsheetMeta(n)],
    file |-> [ok |-> FALSE, error |-> e, value |-> PyNone],
    values |-> << >>] : n \in 0..MaxSheets, e \in BackendErrors}
  \cup
  UNION {
    {[get |-> [ok |-> TRUE, error |-> "", value |-> SpreadsheetMeta(n)],
      file |-> [ok |-> TRUE, error |-> "", value |-> FileInfo(link)],
      values |-> vs] : vs \in [1..n -> BOOLEAN], link \in BOOLEAN}
    : n \in 0..MaxSheets }

ValuesError == "Unable to parse range"

NoBackend ==
  [list |-> [ok |-> TRUE, error |-> "", value |-> PyDict(<< >>)],
   get |-> [ok |-> TRUE, error |-> "", value |-> SpreadsheetMeta(0)],
   file |-> [ok |-> TRUE, error |-> "", value |-> FileInfo(FALSE)],
   values |-> << >>]

SearchBackends == {[NoBackend EXCEPT !.list = l] : l \in ListOutcomes}
FetchBackendsFull ==
  {[NoBackend EXCEPT !.get = b.get, !.file = b.file, !.values = b.values] :
     b \in FetchBackends}

\* ------------------------------------------ the body of search and fetch
SheetsUrl(id) == "https://docs.google.com/spreadsheets/d/" \o id

FormattedResult(file) ==
  PyDict(<< <<"id", DictGet(file, "id", PyNone)>>,
          <<"title", DictGet(file, "name", PyNone)>>,
          <<"url", DictGet(file, "webViewLink",
                           PyStr(SheetsUrl(DictGet(file, "id", PyNone).v)))>>,
          <<"modified", DictGet(file, "modifiedTime", PyStr(""))>> >>)

\* the try block of search_tool: the Drive query and the formatting of the
\* files found
SearchTry(query, backend) ==
  IF ~backend.list.ok
  THEN PyRaise(backend.list.error, 1, {backend.list.error})
  ELSE LET files == DictGet(backend.list.value, "files", PyList(<< >>))
       IN PyReturn(
            PyDict(<< <<"results",
                      PyList([i \in 1..Len(files.v) |-> FormattedResult(files.v[i])])>> >>),
            1, {})

\* the mutant of the loop over the sheets: a sheet whose values call raises
\* is left out
SheetsDataSkipsFailed(spreadsheet, backend) ==
  LET sheets == DictGet(spreadsheet, "sheets", PyList(<< >>))
      all == [i \in 1..Len(sheets.v) |->
                PyDict(<< <<"name", DictGet(DictGet(sheets.v[i], "properties", PyDict(<< >>)),
                                          "title", PyStr("Unknown Sheet"))>>,
                        <<"values", IF backend.values[i]
                                    THEN DictGet(SheetValues, "values", PyList(<< >>))
                                    ELSE PyNone>> >>)]
  IN PyList(SelectSeq(all, LAMBDA d : DictGet(d, "values", PyNone) # PyNone))

\* the sheets_data list fetch_tool builds: a sheet whose values call raises
\* gets an empty list
SheetsData(spreadsheet, backend) ==
  LET sheets == DictGet(spreadsheet, "sheets", PyList(<< >>))
  IN PyList([i \in 1..Len(sheets.v) |->
       PyDict(<< <<"name", DictGet(DictGet(sheets.v[i], "properties", PyDict(<< >>)),
                                 "title", PyStr("Unknown Sheet"))>>,
               <<"values", IF backend.values[i]
                           THEN DictGet(SheetValues, "values", PyList(<< >>))
                           ELSE PyList(<< >>)>> >>)])

\* the try block of fetch_tool
FetchTry(id, backend) ==
  IF ~backend.get.ok
  THEN PyRaise(backend.get.error, 1, {backend.get.error})
  ELSE IF ~backend.file.ok
  THEN PyRaise(backend.file.error, 2, {backend.file.error})
  ELSE
    LET spreadsheet == backend.get.value
        file_info == backend.file.value
        title == DictGet(DictGet(spreadsheet, "properties", PyDict(<< >>)), "title",
                         DictGet(file_info, "name", PyStr("Unknown Spreadsheet")))
        sheets_data == SheetsData(spreadsheet, backend)
        n == Len(sheets_data.v)
    IN PyReturn(
         PyDict(<< <<"id", PyStr(id)>>,
                 <<"title", title>>,
                 <<"text", PyStr(json_dumps(
                     PyDict(<< <<"spreadsheet_title", title>>,
                             <<"sheets", sheets_data>>,
                             <<"total_sheets", PyInt(n)>> >>)))>>,
                 <<"url", DictGet(file_info, "webViewLink", PyStr(SheetsUrl(id)))>>,
                 <<"metadata",
                   PyDict(<< <<"modified_time", DictGet(file_info, "modifiedTime", PyStr(""))>>,
                           <<"total_sheets", PyInt(n)>>,
                           <<"sheet_names",
                             PyList([i \in 1..n |-> DictGet(sheets_data.v[i], "name", PyNone)])>> >>)>> >>),
         2 + n,
         {ValuesError : i \in {j \in 1..n : ~backend.values[j]}})

\* query.strip() of a value that is no string
NoStrip == "object has no attribute 'strip'"
NoGet == "'NoneType' object has no attribute 'get'"

\* -------------------------------------------------- http_sse_server.py
\* search_tool(request) of http_sse_server
SseSearchTool(request, backend) ==
  LET query == DictGet(request, "query", PyStr(""))
  IN IF Falsy(query) THEN PyReturn(PyDict(<< <<"results", PyList(<< >>)>> >>), 0, {})
     ELSE IF query.t # "str" THEN PyRaise(NoStrip, 0, {})
     ELSE IF Strip(query.v) = "" THEN PyReturn(PyDict(<< <<"results", PyList(<< >>)>> >>), 0, {})
     ELSE
       LET tried ==
             IF ~SHEETS_AVAILABLE
             THEN HTTPException(503, "Google Sheets components not available", 0, {})
             ELSE IF ~spreadsheet_context
             THEN HTTPException(503, "Spreadsheet context not initialized", 0, {})
             ELSE SearchTry(query.v, backend)
       IN \* except Exception as e
          IF tried.kind = "return" THEN tried
          ELSE HTTPException(500, "Search failed: " \o StrOfException(tried),
                             tried.calls, tried.raw)

\* fetch_tool(request) of http_sse_server
SseFetchTool(request, backend) ==
  LET id == DictGet(request, "id", PyStr(""))
  IN IF Falsy(id) THEN HTTPException(400, "Spreadsheet ID is required", 0, {})
     ELSE
       LET tried ==
             IF ~SHEETS_AVAILABLE
             THEN HTTPException(503, "Google Sheets components not available", 0, {})
             ELSE IF ~spreadsheet_context
             THEN HTTPException(503, "Spreadsheet context not initialized", 0, {})
             ELSE FetchTry(id.v, backend)
       IN IF tried.kind = "return" THEN tried
          ELSE HTTPException(500,
                 "Could not fetch spreadsheet with ID " \o id.v \o ": "
                   \o StrOfException(tried),
                 tried.calls, tried.raw)

\* ------------------------------------------------- simple_mcp_server.py
\* search_tool(query) of simple_mcp_server
search_tool(query, backend) ==
  IF Falsy(query) THEN PyReturn(PyDict(<< <<"results", PyList(<< >>)>> >>), 0, {})
  ELSE IF query.t # "str" THEN PyRaise(NoStrip, 0, {})
  ELSE IF Strip(query.v) = "" THEN PyReturn(PyDict(<< <<"results", PyList(<< >>)>> >>), 0, {})
  ELSE IF ~SHEETS_AVAILABLE
  THEN PyReturn(PyDict(<< <<"results", PyList(<< >>)>>,
                        <<"error", PyStr("Google Sheets components not available")>> >>), 0, {})
  ELSE IF ~spreadsheet_context
  THEN PyReturn(PyDict(<< <<"results", PyList(<< >>)>>,
                        <<"error", PyStr("Spreadsheet context not initialized")>> >>), 0, {})
  ELSE LET tried == SearchTry(query.v, backend)
       IN IF tried.kind = "return" THEN tried
          ELSE PyReturn(PyDict(<< <<"results", PyList(<< >>)>>,
                                <<"error", PyStr("Search failed: " \o StrOfException(tried))>> >>),
                        tried.calls, tried.raw)

\* fetch_tool(id) of simple_mcp_server
fetch_tool(id, backend) ==
  IF Falsy(id) THEN PyReturn(PyDict(<< <<"error", PyStr("Spreadsheet ID is required")>> >>), 0, {})
  ELSE IF ~SHEETS_AVAILABLE
  THEN PyReturn(PyDict(<< <<"id", id>>,
                        <<"title", PyStr("Placeholder Spreadsheet")>>,
                        <<"text", PyStr("Google Sheets integration in progress")>>,
                        <<"url", PyStr(SheetsUrl(id.v))>>,
                        <<"error", PyStr("Google Sheets components not available")>> >>), 0, {})
  ELSE IF ~spreadsheet_context
  THEN PyReturn(PyDict(<< <<"error", PyStr("Spreadsheet context not initialized")>> >>), 0, {})
  ELSE LET tried == FetchTry(id.v, backend)
       IN IF tried.kind = "return" THEN tried
          ELSE PyReturn(PyDict(<< <<"error",
                                  PyStr("Could not fetch spreadsheet with ID " \o id.v \o ": "
                                      \o StrOfException(tried))>> >>),
                        tried.calls, tried.raw)

\* the JSON-RPC result that carries a tool's result as text
ToolResult(request, result) ==
  PyDict(<< <<"jsonrpc", PyStr("2.0")>>,
          <<"id", DictGet(request, "id", PyNone)>>,
          <<"result", PyDict(<< <<"content", PyList(<<
              PyDict(<< <<"type", PyStr("text")>>,
                      <<"text", PyStr(json_dumps(result))>> >>) >>)>> >>)>> >>)

InitializeResult(request) ==
  PyDict(<< <<"jsonrpc", PyStr("2.0")>>,
          <<"id", DictGet(request, "id", PyNone)>>,
          <<"result", PyDict(<<
              <<"protocolVersion", PyStr("2024-11-05")>>,
              <<"capabilities", PyDict(<<
                  <<"tools", PyDict(<< <<"listChanged", PyBool(TRUE)>> >>)>>,
                  <<"resources", PyDict(<< <<"subscribe", PyBool(TRUE)>>,
                                         <<"listChanged", PyBool(TRUE)>> >>)>> >>)>>,
              <<"serverInfo", PyDict(<< <<"name", PyStr("Google Sheets MCP Server")>>,
                                      <<"version", PyStr("1.0.8")>> >>)>> >>)>> >>)

\* the tools/list result; of each tool the name and the required property
ToolsListResult(request) ==
  PyDict(<< <<"jsonrpc", PyStr("2.0")>>,
          <<"id", DictGet(request, "id", PyNone)>>,
          <<"result", PyDict(<< <<"tools", PyList(<<
              PyDict(<< <<"name", PyStr("search")>>,
                      <<"inputSchema", PyDict(<< <<"required", PyList(<<PyStr("query")>>)>> >>)>> >>),
              PyDict(<< <<"name", PyStr("fetch")>>,
                      <<"inputSchema", PyDict(<< <<"required", PyList(<<PyStr("id")>>)>> >>)>> >>)
            >>)>> >>)>> >>)

MethodNotFound(request) ==
  PyDict(<< <<"jsonrpc", PyStr("2.0")>>,
          <<"id", DictGet(request, "id", PyNone)>>,
          <<"error", PyDict(<< <<"code", PyInt(-32601)>>,
                             <<"message", PyStr("Method not found")>> >>)>> >>)

IsRpc(request, method) ==
  /\ DictGet(request, "jsonrpc", PyNone) = PyStr("2.0")
  /\ DictGet(request, "method", PyNone) = PyStr(method)

\* the tools/call branch of mcp_endpoint; "fall" when it returns nothing
ToolsCall(request, backend) ==
  LET params == DictGet(request, "params", PyDict(<< >>))
  IN IF params.t # "dict" THEN PyRaise(NoGet, 0, {})
     ELSE
       LET tool_name == DictGet(params, "name", PyNone)
           tool_args == DictGet(params, "arguments", PyDict(<< >>))
       IN IF tool_name = PyStr("search")
          THEN IF tool_args.t # "dict" THEN PyRaise(NoGet, 0, {})
               ELSE LET r == search_tool(DictGet(tool_args, "query", PyStr("")), backend)
                    IN IF r.kind = "return"
                       THEN PyReturn(ToolResult(request, r.value), r.calls, r.raw)
                       ELSE r
          ELSE IF tool_name = PyStr("fetch")
          THEN IF tool_args.t # "dict" THEN PyRaise(NoGet, 0, {})
               ELSE LET r == fetch_tool(DictGet(tool_args, "id", PyStr("")), backend)
                    IN IF r.kind = "return"
                       THEN PyReturn(ToolResult(request, r.value), r.calls, r.raw)
                       ELSE r
          ELSE [PyReturn(PyNone, 0, {}) EXCEPT !.kind = "fall"]

\* mcp_endpoint(request)
mcp_endpoint(request, backend) ==
  IF IsRpc(request, "initialize")
  THEN PyReturn(InitializeResult(request), 0, {})
  ELSE
    LET called == IF IsRpc(request, "tools/call")
                  THEN ToolsCall(request, backend)
                  ELSE [PyReturn(PyNone, 0, {}) EXCEPT !.kind = "fall"]
    IN IF called.kind # "fall" THEN called
       ELSE IF IsRpc(request, "tools/list")
       THEN PyReturn(ToolsListResult(request), 0, {})
       ELSE PyReturn(MethodNotFound(request), 0, {})

\* search_endpoint(request)
search_endpoint(request, backend) ==
  search_tool(DictGet(request, "query", PyStr("")), backend)

\* fetch_endpoint(request)
fetch_endpoint(request, backend) ==
  fetch_tool(DictGet(request, "id", PyStr("")), backend)

\* ------------------------------------------------------- http_server.py
\* the names of TOOL_DEFINITIONS that the requests of this model use
TOOL_DEFINITIONS == {"list_sheets", "get_sheet_data"}

\* what the tool's handler does with the parameters
ToolOutcomes ==
  {PyReturn(PyList(<< PyStr("Sheet1"), PyStr("Data") >>), 1, {})}
  \cup {PyRaise(e, 1, {e}) : e \in BackendErrors}

\* what looking the handler up in mcp.list_tools() gives
Lookups == {"found", "missing", "raises"}
LookupError == "'coroutine' object is not iterable"

ToolCallResponse(success, result, error) ==
  PyDict(<< <<"success", PyBool(success)>>, <<"result", result>>, <<"error", error>> >>)

\* call_tool(request)
call_tool(request, lookup, handler) ==
  IF ~spreadsheet_context
  THEN HTTPException(503, "Spreadsheet context not initialized", 0, {})
  ELSE IF request.tool_name \notin TOOL_DEFINITIONS
  THEN HTTPException(400, "Unknown tool: " \o request.tool_name, 0, {})
  ELSE
    LET tried ==
          IF lookup = "raises" THEN PyRaise(LookupError, 0, {})
          ELSE IF lookup = "missing"
          THEN HTTPException(400, "Tool function not found: " \o request.tool_name, 0, {})
          ELSE handler
    IN IF tried.kind = "return"
       THEN PyReturn(ToolCallResponse(TRUE, tried.value, PyNone), tried.calls, tried.raw)
       ELSE PyReturn(ToolCallResponse(FALSE, PyNone, PyStr(StrOfException(tried))),
                     tried.calls, tried.raw)

\* --------------------------------------------------------- the requests
ToolCallRequests ==
  {[tool_name |-> n, parameters |-> p] :
     n \in {"list_sheets", "get_sheet_data", "drop_database"},
     p \in {PyDict(<< <<"spreadsheet_id", PyStr(GoodId)>> >>)}}

SearchRequests ==
  {PyDict(<< >>), PyDict(<< <<"query", PyStr("")>> >>), PyDict(<< <<"query", PyStr("  ")>> >>),
   PyDict(<< <<"query", PyStr("budget")>> >>), PyDict(<< <<"query", PyInt(2024)>> >>)}

FetchRequests ==
  {PyDict(<< >>), PyDict(<< <<"id", PyStr("")>> >>), PyDict(<< <<"id", PyStr(GoodId)>> >>)}

Rpc(id, method, params) ==
  PyDict(<< <<"jsonrpc", PyStr("2.0")>> >> \o id \o << <<"method", PyStr(method)>> >> \o params)

SearchRpcs ==
  {Rpc(<< <<"id", PyInt(3)>> >>, "tools/call",
       << <<"params", PyDict(<< <<"name", PyStr("search")>>, <<"arguments", a>> >>)>> >>) :
     a \in SearchRequests \cup {PyNone}}

FetchRpcs ==
  {Rpc(<< <<"id", PyStr("req-4")>> >>, "tools/call",
       << <<"params", PyDict(<< <<"name", PyStr("fetch")>>, <<"arguments", a>> >>)>> >>) :
     a \in FetchRequests}

OtherRpcs ==
  {Rpc(<< <<"id", PyInt(1)>> >>, "initialize", << >>),
   Rpc(<< >>, "initialize", << >>),
   Rpc(<< <<"id", PyInt(2)>> >>, "tools/list", << >>),
   Rpc(<< <<"id", PyInt(5)>> >>, "resources/list", << >>),
   Rpc(<< <<"id", PyInt(6)>> >>, "tools/call", << >>),
   Rpc(<< <<"id", PyInt(7)>> >>, "tools/call", << <<"params", PyNone>> >>),
   Rpc(<< <<"id", PyInt(8)>> >>, "tools/call",
       << <<"params", PyDict(<< <<"name", PyStr("fetch")>> >>)>> >>),
   Rpc(<< <<"id", PyInt(9)>> >>, "tools/call",
       << <<"params", PyDict(<< <<"name", PyStr("drop_database")>>,
                              <<"arguments", PyDict(<< >>)>> >>)>> >>),
   PyDict(<< <<"jsonrpc", PyStr("1.0")>>, <<"id", PyInt(10)>>, <<"method", PyStr("initialize")>> >>),
   PyDict(<< <<"id", PyInt(11)>> >>)}

\* ------------------------------------------------------------ the server
Servers == {"http_server", "http_sse_server", "simple_mcp_server"}

NoResponse ==
  [entry |-> "none", tool_name |-> "", request |-> PyNone, backend |-> NoBackend,
   status |-> 0, body |-> PyNone, escaped |-> FALSE, calls |-> 0, raw |-> {}]

\* the module after import: the context is None, and SHEETS_AVAILABLE tells
\* whether .server could be imported (http_server imports it unguarded)
InitServerWith(S) ==
  /\ InitSanitizeWith({PyNone})
  /\ server \in S
  /\ SHEETS_AVAILABLE \in BOOLEAN
  /\ server = "http_server" => SHEETS_AVAILABLE
  /\ spreadsheet_context = FALSE
  /\ phase = "imported"
  /\ response = NoResponse

InitServer == InitServerWith(Servers)

\* the mutant of Startup: the lifespan is entered again while serving
StartupAnyPhase(ok) ==
  /\ phase \in {"imported", "running"}
  /\ spreadsheet_context' = ok
  /\ phase' = "running"
  /\ UNCHANGED <<server, SHEETS_AVAILABLE, response, limVars, thrVars, gwVars, ehVars, sdVars, global_calls, regVars, validated>>

\* entering lifespan(app); ok: spreadsheet_lifespan yields a context
Startup(ok) ==
  /\ phase = "imported"
  /\ IF server = "http_server"
     THEN /\ spreadsheet_context' = ok
          /\ phase' = IF ok THEN "running" ELSE "stopped"
     ELSE /\ spreadsheet_context' = (SHEETS_AVAILABLE /\ ok)
          /\ phase' = "running"
  /\ UNCHANGED <<server, SHEETS_AVAILABLE, response, limVars, thrVars, gwVars, ehVars, sdVars, global_calls, regVars, validated>>

\* leaving lifespan(app)
Shutdown ==
  /\ phase = "running"
  /\ phase' = "stopped"
  /\ UNCHANGED <<server, SHEETS_AVAILABLE, spreadsheet_context, response,
                 limVars, thrVars, gwVars, ehVars, sdVars, global_calls, regVars, validated>>

\* what FastAPI sends for the outcome of an endpoint function
Respond(entry, tool_name, request, backend, o) ==
  /\ response' =
       [entry |-> entry, tool_name |-> tool_name, request |-> request,
        backend |-> backend,
        status |-> o.status,
        body |-> CASE o.kind = "return" -> o.value
                   [] o.kind = "http" -> PyDict(<< <<"detail", PyStr(o.msg)>> >>)
                   [] OTHER -> PyStr("Internal Server Error"),
        escaped |-> (o.kind = "raise"),
        calls |-> o.calls, raw |-> o.raw]
  /\ UNCHANGED <<server, SHEETS_AVAILABLE, spreadsheet_context, phase,
                 limVars, thrVars, gwVars, ehVars, sdVars, global_calls, regVars, validated>>

Serving(s) == server = s /\ phase \in {"imported", "running"}

\* POST /tools/call of http_server
CallTool(request, lookup, handler) ==
  /\ Serving("http_server")
  /\ \E o \in {call_tool(request, lookup, handler)} :
       Respond("call_tool", request.tool_name, request.parameters, NoBackend, o)

\* POST /search of http_sse_server
SseSearch(request, backend) ==
  /\ Serving("http_sse_server")
  /\ \E o \in {SseSearchTool(request, backend)} : Respond("search", "", request, NoBackend, o)

\* POST /fetch of http_sse_server
SseFetch(request, backend) ==
  /\ Serving("http_sse_server")
  /\ \E o \in {SseFetchTool(request, backend)} : Respond("fetch", "", request, backend, o)

\* POST /mcp of simple_mcp_server
McpEndpoint(request, backend) ==
  /\ Serving("simple_mcp_server")
  /\ \E o \in {mcp_endpoint(request, backend)} : Respond("mcp_endpoint", "", request, NoBackend, o)

\* POST /search of simple_mcp_server
SearchEndpoint(request, backend) ==
  /\ Serving("simple_mcp_server")
  /\ \E o \in {search_endpoint(request, backend)} : Respond("search", "", request, NoBackend, o)

\* POST /fetch of simple_mcp_server
FetchEndpoint(request, backend) ==
  /\ Serving("simple_mcp_server")
  /\ \E o \in {fetch_endpoint(request, backend)} : Respond("fetch", "", request, backend, o)

NextServer ==
  \/ \E ok \in BOOLEAN : Startup(ok)
  \/ Shutdown
  \/ \E r \in ToolCallRequests, l \in Lookups, h \in ToolOutcomes : CallTool(r, l, h)
  \/ \E r \in SearchRequests, b \in SearchBackends : SseSearch(r, b)
  \/ \E r \in FetchRequests, b \in FetchBackendsFull : SseFetch(r, b)
  \/ \E r \in SearchRpcs, b \in SearchBackends : McpEndpoint(r, b)
  \/ \E r \in FetchRpcs \cup OtherRpcs, b \in FetchBackendsFull : McpEndpoint(r, b)
  \/ \E r \in SearchRequests, b \in SearchBackends : SearchEndpoint(r, b)
  \/ \E r \in FetchRequests, b \in FetchBackendsFull : FetchEndpoint(r, b)

\* ------------------------------------------- validate_inputs, called alone
\* the validations a decorator declares: parameter name -> validation type
Declarations ==
  { DeclaredValidations,
    << [name |-> "spreadsheet_id", type |-> "spreadsheet_id"],
       [name |-> "sheet", type |-> "sheet_name"],
       [name |-> "range", type |-> "range"] >>,
    << [name |-> "range", type |-> "range"],
       [name |-> "email_address", type |-> "email"],
       [name |-> "role", type |-> "role"] >> }

RangeValues ==
  {"A1", "A1:B2", "Sheet1!A1:B2", "Sheet1!A1", "AA1", "AB12:CD34", "Sheet1A1",
   "my_sheet!A1", "1A1", "a1", "A", "A1:", "A1:B", "!A1", "Sheet1!", "A1\n",
   "Sheet 1!A1", "A1:B2:C3", "A1!B2", ""}

\* the values a caller passes for a parameter of a validation type
ValuesOf(type) ==
  CASE type = "spreadsheet_id" -> {GoodId, "short"}
    [] type = "sheet_name" -> {"Sheet1", "bad[name]"}
    [] type = "range" -> RangeValues
    [] type = "email" -> {"ann@example.com", "ann@example", "ann@example.c", "@example.com"}
    [] OTHER -> {"writer", ""}

\* the keyword arguments of a call: some of the declared parameters
KwargsOf(vs) ==
  LET types == [n \in {vs[i].name : i \in 1..Len(vs)} |->
                  (CHOOSE i \in 1..Len(vs) : vs[i].name = n)]
      all == UNION {ValuesOf(vs[i].type) : i \in 1..Len(vs)}
  IN UNION { {kw \in [S -> all] : \A n \in S : kw[n] \in ValuesOf(vs[types[n]].type)} :
               S \in SUBSET DOMAIN types }

\* a call of a function decorated @validate_inputs(**vs)
ValidateInputsCall(vs, kwargs) ==
  /\ \E m \in {FirstValidationError(vs, kwargs)} :
       validated' = [validations |-> vs, kwargs |-> kwargs, error |-> m,
                     invoked |-> (m = ""),
                     response |-> NoValidated.response]
  /\ UNCHANGED <<limVars, thrVars, gwVars, ehVars, epVars, sdVars, global_calls, regVars>>

\* the caller hands the ValueError to ErrorHandler.handle_validation_error
HandleValidationError ==
  /\ validated.error # ""
  /\ validated' = [validated EXCEPT !.response = handle_validation_error(validated.error)]
  /\ UNCHANGED <<limVars, thrVars, gwVars, ehVars, epVars, sdVars, global_calls, regVars>>

NextValidate ==
  \/ \E vs \in Declarations : \E kwargs \in KwargsOf(vs) : ValidateInputsCall(vs, kwargs)
  \/ HandleValidationError

\* ------------------------------------------------------ specifications
InitPlain ==
  /\ InitLimiter /\ InitThreads /\ InitGatewayWith({}) /\ InitErrors
  /\ InitServerWith({"http_server"})

\* the limiter alone, called from one thread
SpecLimiter == InitPlain /\ [][NextLimiter]_vars

\* is_allowed() called once by each of several threads
SpecThreads == InitPlain /\ [][NextThreads]_vars

InitDecorated ==
  /\ InitLimiter /\ InitThreads /\ InitErrors /\ InitServerWith({"http_server"})
  /\ InitGatewayWith({"validate_inputs", "rate_limit"})

\* an operation decorated with validate_inputs and rate_limit, in any order
SpecGateway == InitDecorated /\ [][NextGateway]_vars

InitAudited ==
  /\ InitLimiterWith({1}, {1}) /\ InitThreads /\ InitErrors
  /\ InitServerWith({"http_server"})
  /\ InitGatewayWith({"audit_log", "validate_inputs", "rate_limit"})

\* an operation decorated with audit_log, validate_inputs and rate_limit, in
\* any order
SpecAudit == InitAudited /\ [][NextAudit]_vars

InitHandler ==
  /\ InitLimiterWith({1}, {1}) /\ InitThreads /\ InitGatewayWith({}) /\ InitErrors
  /\ InitServerWith({"http_server"})

\* SecurityAuditor used directly
SpecAuditor == InitHandler /\ [][NextAuditor]_vars

InitLimited ==
  /\ InitLimiter /\ InitThreads /\ InitErrors /\ InitServerWith({"http_server"})
  /\ InitGatewayWith({"rate_limit"})

\* the global limiter beside the limiter of a decorated operation
SpecGlobal == InitLimited /\ [][NextGlobal]_vars

\* the registry, filled and consulted
SpecRegistry == InitHandler /\ [][NextRegistry]_vars

\* validate_inputs around a function, and handle_validation_error
SpecValidate == InitHandler /\ [][NextValidate]_vars

InitData ==
  /\ InitLimiterWith({1}, {1}) /\ InitThreads /\ InitGatewayWith({}) /\ InitErrors
  /\ server = "http_server" /\ SHEETS_AVAILABLE = TRUE
  /\ spreadsheet_context = FALSE
  /\ phase = "imported" /\ response = NoResponse
  /\ InitSanitize

\* sanitize_data applied once and twice
SpecSanitize == InitData /\ [][NextSanitize]_vars

InitEntry ==
  /\ InitLimiterWith({1}, {1}) /\ InitThreads /\ InitGatewayWith({}) /\ InitErrors
  /\ InitServer

\* the endpoints of http_server, http_sse_server and simple_mcp_server
SpecServer == InitEntry /\ [][NextServer]_vars

\* ErrorHandler.handle_google_api_error called by two callers
SpecErrors == InitHandler /\ [][NextErrors]_vars

\* ---------------------------------------------------------------- claims

\* C1: at every instant the number of admitted calls whose timestamp lies in
\* the trailing window of length time_window is between 0 and max_calls, and
\* the limiter never holds more than max_calls recorded timestamps.
C1_WindowBounded ==
  /\ Len(calls) <= max_calls
  /\ Len(InWindow(admitted, now, time_window)) \in 0..max_calls

\* C1 witness: the window is full again after earlier admitted calls have
\* left it, and a call has just been denied.
C1_Witness ==
  /\ last.op = "is_allowed" /\ ~last.allowed
  /\ Len(calls) = max_calls
  /\ Len(admitted) = max_calls
  /\ now >= time_window

\* C2: callers that invoke is_allowed() at the same time on a limiter with
\* max_calls = 1 and an empty window: exactly one of them is admitted.
C2_ExactlyOneAdmitted ==
  ( /\ max_calls = 1
    /\ \A t \in Threads : pc[t] = "done"
    /\ \A t, u \in Threads : t_now[t] = t_now[u] )
  => Cardinality({t \in Threads : t_ret[t] = "True"}) = 1

\* an element of the deque that has left the window at time t
Expired(x, t, w) == x <= t - w

\* C3: a denied is_allowed() records nothing: the deque after it is the deque
\* before it with only expired timestamps dropped from the front, so the
\* oldest timestamp still counted, which decides when the next call is
\* admitted, is the one that was already there.
C3_DeniedRecordsNothing ==
  [][ (now' = now /\ last'.op = "is_allowed" /\ ~last'.allowed) =>
        /\ admitted' = admitted
        /\ \E k \in 0..Len(calls) :
             /\ calls' = SubSeq(calls, k + 1, Len(calls))
             /\ \A i \in 1..k : Expired(calls[i], now, time_window)
             /\ \A i \in (k + 1)..Len(calls) : ~Expired(calls[i], now, time_window)
    ]_vars

\* C3 witness: a call has been denied by a deque that had to drop expired
\* timestamps before.
C3_Witness ==
  /\ last.op = "is_allowed" /\ ~last.allowed
  /\ calls # <<>>
  /\ calls[1] > 0

\* the caller of the last call got what the function body did, which ran once
Admitted(r) ==
  /\ r.invoked = 1
  /\ r.out.origin # "rate_limit"
  /\ r.fb = "return" => r.out = Returned("result")

\* the last call failed as rate-limited and the function body did not run
RateLimited(r) ==
  /\ r.invoked = 0
  /\ r.out.kind = "raise" /\ r.out.exc = "Exception"
  /\ r.out.msg = RateLimitMessage(max_calls, time_window)

\* C4: an operation wrapped by rate_limit alone.  A call is admitted while
\* fewer than max_calls admitted calls lie in the trailing window (so the
\* first max_calls calls are); once the deque is full, every call made before
\* its oldest timestamp is time_window old fails as rate-limited without
\* running the function; a call made when the oldest timestamp is
\* time_window old or older is admitted again.
C4_WindowAdmission ==
  [][ (now' = now /\ stack = <<"rate_limit">>) =>
        /\ Len(InWindow(admitted, now, time_window)) < max_calls
             => Admitted(resp')
        /\ Len(InWindow(admitted, now, time_window)) >= max_calls
             => RateLimited(resp')
        /\ Len(calls) < max_calls => Admitted(resp')
        /\ (Len(calls) = max_calls /\ now < calls[1] + time_window)
             => RateLimited(resp')
        /\ (Len(calls) = max_calls /\ now >= calls[1] + time_window)
             => Admitted(resp')
    ]_vars

\* C4 witness: the deque was full when the call was made, and the call was
\* admitted because the oldest timestamp had left the window.
C4_Witness ==
  /\ stack = <<"rate_limit">>
  /\ resp.before = max_calls
  /\ resp.invoked = 1 /\ resp.out = Returned("result")

Decorators == {stack[i] : i \in 1..Len(stack)}

\* C5: a call with an invalid value for a declared parameter, passed by
\* keyword, ends in the validation error and leaves the limiter's timestamps
\* unchanged, however validate_inputs and rate_limit are stacked.
C5_ValidationBeforeCharge ==
  [][ ( /\ now' = now
        /\ {"validate_inputs", "rate_limit"} \subseteq Decorators
        /\ FirstValidationError(DeclaredValidations, resp'.req.kwargs) # "" )
      => (resp'.out.exc = "ValueError" /\ calls' = calls)
    ]_vars

\* C6: when validate_inputs rejected a parameter or is_allowed() returned
\* False during a call, the function body did not run in that call.
C6_NoHandlerOnRejection ==
  (resp.rejected \/ resp.denied) => resp.invoked = 0

\* C6 witness: a call that passed validate_inputs and was then denied by the
\* limiter.
C6_Witness ==
  /\ stack = <<"validate_inputs", "rate_limit">>
  /\ resp.denied /\ ~resp.rejected
  /\ resp.out.kind = "raise" /\ resp.invoked = 0

\* C10: when a log_event call of audit_log raised, the caller still gets what
\* the wrapped function did: its result, or its own exception.
C10_AuditFailureHidden ==
  resp.audit_failed => resp.out = resp.audited

\* the substrings of each category, in the order of the categories
Keywords ==
  << {"quota", "limit"}, {"permission", "forbidden"}, {"not found"}, {"invalid"} >>

\* the categories a lower-cased text matches
Matching(s) == {i \in 1..4 : \E k \in Keywords[i] : Contains(s, k)}

\* the category of a raw error: the earliest one it matches, 5 (unknown) when
\* it matches none
CategoryOf(e) ==
  LET m == Matching(Lower(e))
  IN IF m = {} THEN 5 ELSE CHOOSE i \in m : \A j \in m : i <= j

Categories == [e \in RawErrors |-> CategoryOf(e)]

\* the message of each category
CategoryMessages ==
  << "API quota exceeded. Please try again later.",
     "Insufficient permissions for this operation.",
     "The requested resource was not found.",
     "Invalid request parameters.",
     "An unexpected error occurred." >>

Handling == error_details # NoDetails /\ error_details2 # NoDetails

\* C8: what handle_google_api_error returns depends only on the category of
\* the error: two errors of one category get equal dictionaries, and the
\* message is one of the five constant strings.
C8_MessageByCategoryOnly ==
  /\ error_details # NoDetails =>
       \E i \in 1..5 : error_details.message = CategoryMessages[i]
  /\ (Handling /\ Categories[err] = Categories[err2]) => error_details = error_details2

\* C8 witness: two different errors that match no category were handled.
C8_Witness ==
  /\ Handling /\ err # err2
  /\ Categories[err] = 5 /\ Categories[err2] = 5
  /\ error_details = error_details2

\* C9: the category is the first one, in the order quota/limit,
\* permission/forbidden, not found, invalid, unknown, that the lower-cased
\* text matches; the message is that category's, and retry_after is present,
\* and 60, exactly when the category is quota/limit.
C9_FirstMatchWins ==
  error_details # NoDetails =>
    /\ error_details.message = CategoryMessages[Categories[err]]
    /\ ("retry_after" \in DOMAIN error_details) <=> (Categories[err] = 1)
    /\ "retry_after" \in DOMAIN error_details => error_details.retry_after = 60

\* C9 witness: an error that matches quota/limit and a later category too.
C9_Witness ==
  /\ error_details # NoDetails
  /\ Cardinality(Matching(Lower(err))) >= 2
  /\ Categories[err] = 1
  /\ error_details.retry_after = 60

\* the texts inside a Python value
RECURSIVE AllStrings(_)
AllStrings(x) ==
  CASE x.t = "str" -> {x.v}
    [] x.t = "list" -> UNION {AllStrings(x.v[i]) : i \in 1..Len(x.v)}
    [] x.t = "dict" -> UNION {AllStrings(x.v[i][2]) : i \in 1..Len(x.v)}
    [] OTHER -> {}

\* C7: no response of an entry point (call_tool, search, fetch, mcp_endpoint)
\* contains the raw text of an exception the handler or the backend raised.
C7_NoRawExceptionText ==
  \A e \in response.raw : \A s \in AllStrings(response.body) : ~Contains(s, e)

\* C11: with audit_log, validate_inputs and rate_limit all stacked on the
\* operation, in any order, a call that ends in a failure (and whose
\* log_event calls work) appends one event with success False to the log.
C11_FailureAudited ==
  [][ ({"audit_log", "validate_inputs", "rate_limit"} \subseteq Decorators
       /\ resp' # resp /\ resp'.fm = NoFail /\ resp'.out.kind = "raise")
      => /\ Len(events') = Len(events) + 1
         /\ ~events'[Len(events')].details.success ]_vars

IsPrefix(a, b) == Len(a) <= Len(b) /\ SubSeq(b, 1, Len(a)) = a

\* C12: the audit log is append-only: over every call of log_event and
\* get_events the events that existed are an unchanged prefix of the events
\* after it, and get_events changes nothing.
C12_AppendOnly ==
  [][ /\ IsPrefix(events, events')
      /\ (listed' # listed /\ listed'.op = "get_events") => events' = events ]_vars

\* C12 witness: an event was appended to a log that held one, and get_events
\* then returned part of the log.
C12_Witness ==
  /\ Len(events) >= 2
  /\ listed.op = "get_events"
  /\ listed.result # <<>> /\ Len(listed.result) < Len(events)

\* C13: sanitize_data is idempotent on every nested value of strings, lists
\* and dictionaries, strings longer than 10,000 characters included.
C13_Idempotent == clean2 # Unset => clean2 = clean

\* C13 witness: a string longer than the limit was sanitized twice; the first
\* pass cut it and appended the marker.
C13_Witness ==
  /\ clean2 # Unset /\ data.t = "str"
  /\ Len(data.v) > StrLimit
  /\ Len(clean.v) = StrLimit + Len(Marker)
  /\ SubSeq(clean.v, StrLimit + 1, Len(clean.v)) = Marker

\* every list of x holds at most ListLimit values, every dictionary at most
\* DictLimit, and no string value holds NUL, CR or LF
RECURSIVE Bounded(_)
Bounded(x) ==
  CASE x.t = "str" -> ~HasAnyChar(x.v, {NUL, "\r", "\n"})
    [] x.t = "list" -> /\ Len(x.v) <= ListLimit
                       /\ \A i \in 1..Len(x.v) : Bounded(x.v[i])
    [] x.t = "dict" -> /\ Len(x.v) <= DictLimit
                       /\ \A i \in 1..Len(x.v) : Bounded(x.v[i][2])
    [] OTHER -> TRUE

\* y has the shape of x cut to the limits: the first values of each list, in
\* order, and the first entries of each dictionary, under their keys
RECURSIVE CutOf(_, _)
CutOf(y, x) ==
  /\ y.t = x.t
  /\ CASE x.t = "list" -> /\ Len(y.v) = Min(Len(x.v), ListLimit)
                          /\ \A i \in 1..Len(y.v) : CutOf(y.v[i], x.v[i])
       [] x.t = "dict" -> /\ Len(y.v) = Min(Len(x.v), DictLimit)
                          /\ \A i \in 1..Len(y.v) :
                               /\ y.v[i][1] = x.v[i][1]
                               /\ CutOf(y.v[i][2], x.v[i][2])
       [] x.t = "str" -> TRUE
       [] OTHER -> y = x

\* C14: in the output of sanitize_data, at every depth, a list holds the
\* first 100 values of the input at most, a dictionary the first 50 entries
\* under unchanged keys, and no string value holds NUL, CR or LF.
C14_OutputBounded == clean # Unset => (Bounded(clean) /\ CutOf(clean, data))

\* C14 witness: a list of more than 100 values, nested in another value, was
\* sanitized.
C14_Witness ==
  /\ clean # Unset /\ data.t = "list" /\ Len(data.v) = 1
  /\ data.v[1].t = "list" /\ Len(data.v[1].v) > ListLimit
  /\ Len(clean.v[1].v) = ListLimit

\* C15: the retry_after a rate-limit denial carries is the window minus the
\* age of the oldest recorded timestamp, time_window - (now - calls[0]).
C15_RetryAfterIsRemainingWindow ==
  [][ (now' = now /\ resp' # resp /\ resp'.denied)
      => handle_rate_limit_error(resp'.out.msg).retry_after
           = time_window - (now - calls'[1]) ]_vars

\* C16: admission evaluates the global limiter first and the operation's own
\* limiter second: a call runs the operation only if the global limiter
\* admits it too, and the global limiter records the call.
C16_GlobalLimiterFirst ==
  [][ (resp' # resp /\ stack = <<"rate_limit">> /\ resp'.invoked = 1)
      => LET g == IsAllowedAt(global_calls, now, GlobalMaxCalls, GlobalWindow)
         IN g.allowed /\ global_calls' = g.calls ]_vars

McpMethods == {"initialize", "tools/call", "tools/list"}
McpTools == {"search", "fetch"}

\* the request of the response r names a method or a tool that is not registered
NamesUnknown(r) ==
  \/ r.entry = "call_tool" /\ r.tool_name \notin TOOL_DEFINITIONS
  \/ /\ r.entry = "mcp_endpoint"
     /\ LET method == DictGet(r.request, "method", PyNone)
            params == DictGet(r.request, "params", PyDict(<< >>))
        IN /\ method.t = "str"
           /\ \/ method.v \notin McpMethods
              \/ /\ method.v = "tools/call"
                 /\ params.t = "dict"
                 /\ DictGet(params, "name", PyNone).t = "str"
                 /\ DictGet(params, "name", PyNone).v \notin McpTools

\* the response r is the NotFound failure of its endpoint
IsNotFound(r) ==
  IF r.entry = "call_tool"
  THEN r.status = 400 /\ r.body = PyDict(<< <<"detail", PyStr("Unknown tool: " \o r.tool_name)>> >>)
  ELSE ~r.escaped /\ r.body = MethodNotFound(r.request)

\* C18: a request naming a method or tool that is not registered is answered
\* with the NotFound failure, and no handler and no backend call is made.
C18_UnknownIsNotFound ==
  [][ (response' # response /\ NamesUnknown(response'))
      => (IsNotFound(response') /\ response'.calls = 0) ]_vars

\* the first declared parameter that is present with an invalid value, 0 if none
Invalid(v, kwargs) ==
  /\ v.name \in DOMAIN kwargs
  /\ CASE v.type = "spreadsheet_id" -> ~validate_spreadsheet_id(kwargs[v.name])
       [] v.type = "sheet_name" -> ~validate_sheet_name(kwargs[v.name])
       [] v.type = "range" -> ~validate_range(kwargs[v.name])
       [] v.type = "email" -> ~validate_email(kwargs[v.name])
       [] OTHER -> FALSE

FirstInvalid(vs, kwargs) ==
  LET bad == {i \in 1..Len(vs) : Invalid(vs[i], kwargs)}
  IN IF bad = {} THEN 0 ELSE CHOOSE i \in bad : \A j \in bad : i <= j

\* the message names the parameter
NamesParameter(message, name) ==
  LET head == "Invalid " \o name \o ": "
  IN Len(message) >= Len(head) /\ SubSeq(message, 1, Len(head)) = head

\* C19: with several declared parameters present and one of them invalid, the
\* ValueError of validate_inputs and the response of handle_validation_error
\* name the first invalid parameter in declaration order.
C19_NamesOffendingParameter ==
  LET i == FirstInvalid(validated.validations, validated.kwargs)
  IN (Cardinality(DOMAIN validated.kwargs) >= 2 /\ i # 0)
     => /\ NamesParameter(validated.error, validated.validations[i].name)
        /\ validated.response.error_type # ""
             => NamesParameter(validated.response.message, validated.validations[i].name)

\* the A1 grammar (<sheet-token>!)?<COL><ROW>(:<COL><ROW>)?
A1Grammar(s) ==
  LET word == Chars(UpperLetters) \cup Chars(LowerLetters) \cup Chars(Digits) \cup {"_"}
      sheet == {1} \cup Step({"!"}, s, OneOrMore(word, s, {1}))
      first == CellRef(s, sheet)
  IN Len(s) + 1 \in first \cup CellRef(s, Step({":"}, s, first))

\* C20: validate_range accepts exactly the strings of the A1 grammar.
C20_RangeIsA1Grammar ==
  \A i \in 1..Len(validated.validations) :
    LET v == validated.validations[i]
    IN (v.type = "range" /\ v.name \in DOMAIN validated.kwargs)
       => (validate_range(validated.kwargs[v.name]) <=> A1Grammar(validated.kwargs[v.name]))

\* C21: the context is set only by the one startup step and the lifespan is
\* left only once; in between every step, and every request handler at any
\* time, leaves the context as it is.
C21_ContextSetOnce ==
  [][ /\ spreadsheet_context' # spreadsheet_context
        => (phase = "imported" /\ phase' # "imported")
      /\ phase' = "imported" => phase = "imported"
      /\ phase = "stopped" => phase' = "stopped"
      /\ response' # response => spreadsheet_context' = spreadsheet_context ]_vars

\* C21 witness: the context was created, a request made backend calls with
\* it, and the lifespan was left.
C21_Witness ==
  /\ phase = "stopped" /\ spreadsheet_context
  /\ response.entry # "none" /\ response.calls >= 1

\* C22: under every stacking of audit_log, validate_inputs and rate_limit the
\* function is called with the caller's positional and keyword arguments as
\* they were passed; only the copy in the audit event is cut.
C22_ArgumentsUnchanged ==
  resp.invoked >= 1 => resp.received = resp.req

\* C22 witness: all three decorators are stacked, the function ran with a
\* value of more than 100 characters, and the audit event holds the cut copy.
C22_Witness ==
  /\ Len(stack) = 3 /\ resp.invoked = 1 /\ resp.req = LongRequest
  /\ resp.received.kwargs.note = LongValue
  /\ events # <<>>
  /\ events[Len(events)].details.kwargs.note = Trunc(LongValue, 100)
  /\ events[Len(events)].details.kwargs.note # LongValue

\* C23: the response of mcp_endpoint carries the id of its request, in every
\* branch.
C23_IdCorrelated ==
  response.entry = "mcp_endpoint"
    => /\ response.body.t = "dict"
       /\ HasKey(response.body, "id")
       /\ DictGet(response.body, "id", PyNone) = DictGet(response.request, "id", PyNone)

\* C25: mcp_endpoint, for every request body, and search_tool and fetch_tool
\* of simple_mcp_server, for every backend failure, answer with a structured
\* object; no exception escapes.
C25_NoBareException ==
  (server = "simple_mcp_server" /\ (response.entry = "mcp_endpoint" \/ response.raw # {}))
    => (~response.escaped /\ response.body.t = "dict")

\* the last n elements of seq
LastN(seq, n) == SubSeq(seq, Len(seq) - Min(n, Len(seq)) + 1, Len(seq))

\* C24: get_events returns, in the order they were appended, the most recent
\* events of the asked type (all types without a filter), and never more than
\* limit of them, also for limit 0.
C24_MostRecentAtMostLimit ==
  [][ (listed' # listed /\ listed'.op = "get_events")
      => LET matching == IF listed'.event_type \in {"None", ""} THEN events
                         ELSE SelectSeq(events, LAMBDA e : e.type = listed'.event_type)
         IN /\ Len(listed'.result) <= listed'.limit
            /\ listed'.result = LastN(matching, listed'.limit) ]_vars

\* what a call of is_allowed() or remaining_calls() does when kept are the
\* timestamps that stay in the deque
EvictsAllBut(kept) ==
  (now' = now /\ last' # last) =>
     /\ last'.op = "remaining_calls"
          => /\ calls' = kept
             /\ last'.remaining = Max(0, max_calls - Len(kept))
     /\ last'.op = "is_allowed"
          => /\ last'.allowed <=> Len(kept) < max_calls
             /\ calls' = IF last'.allowed THEN Append(kept, now) ELSE kept

\* C26 as stated: the timestamps strictly older than now - time_window are
\* evicted, one equal to now - time_window is kept and counts, so the call
\* made exactly time_window after the oldest call of a full window is denied.
C26_BoundaryKept ==
  [][EvictsAllBut(SelectSeq(calls, LAMBDA x : x >= now - time_window))]_vars

\* C26 amended: the timestamps older than or equal to now - time_window are
\* evicted, so the call made exactly time_window after the oldest call of a
\* full window is admitted.
C26_BoundaryEvicted ==
  [][EvictsAllBut(SelectSeq(calls, LAMBDA x : x > now - time_window))]_vars

\* C26 witness: is_allowed() found a full deque whose oldest timestamp was
\* exactly time_window old, and admitted the call.
C26_Witness ==
  /\ last.op = "is_allowed" /\ last.allowed
  /\ Len(last.before) = max_calls
  /\ last.before[1] = now - time_window
  /\ calls = Append(Tail(last.before), now)

\* the request of the response r is a /search with a non-empty query or a
\* /fetch with a non-empty id
NonEmptyRequest(r) ==
  \/ /\ r.entry = "search"
     /\ LET query == DictGet(r.request, "query", PyStr(""))
        IN query.t = "str" /\ Strip(query.v) # ""
  \/ /\ r.entry = "fetch"
     /\ ~Falsy(DictGet(r.request, "id", PyStr("")))

\* C27: in http_sse_server such a request, made while the Sheets components
\* are unavailable or the context is not initialized, is answered 503 with
\* the detail of the missing part, and no backend call is made.
C27_UnavailableIs503 ==
  [][ (response' # response /\ server = "http_sse_server" /\ NonEmptyRequest(response')
       /\ (~SHEETS_AVAILABLE \/ ~spreadsheet_context))
      => /\ response'.status = 503
         /\ response'.body = PyDict(<< <<"detail", PyStr(
              IF ~SHEETS_AVAILABLE THEN "Google Sheets components not available"
              ELSE "Spreadsheet context not initialized")>> >>)
         /\ response'.calls = 0 ]_vars

\* the parameters of the decorated function, in the order of its signature
Signature == <<"spreadsheet_id", "sheet_name">>

\* the call binds no parameter twice
WellBound(req) ==
  /\ Len(req.args) <= Len(Signature)
  /\ \A i \in 1..Len(req.args) : Signature[i] \notin DOMAIN req.kwargs

\* the value the call binds to the declared parameter v, "" if it binds none
BoundValue(v, req) ==
  IF v.name \in DOMAIN req.kwargs THEN req.kwargs[v.name]
  ELSE IF \E i \in 1..Len(req.args) : Signature[i] = v.name
  THEN req.args[CHOOSE i \in 1..Len(req.args) : Signature[i] = v.name]
  ELSE ""

\* C28: under validate_inputs the function never runs with an invalid value
\* for a declared parameter, whether it is passed by keyword or by position.
C28_NoInvalidValueRuns ==
  ("validate_inputs" \in Decorators /\ resp.invoked >= 1 /\ WellBound(resp.req))
    => \A i \in 1..Len(DeclaredValidations) :
         LET v == DeclaredValidations[i]
         IN ValidationError(v, [n \in {v.name} |-> BoundValue(v, resp.req)]) = ""

\* C29: a call that reaches audit_log's wrapper appends exactly one event,
\* whose success flag tells whether the wrapped function returned; also when
\* log_event fails in its logging step, after the event is appended.
C29_ExactlyOneEvent ==
  [][ (resp' # resp /\ stack # <<>> /\ stack[1] = "audit_log"
       /\ resp'.fm \in {NoFail, <<"logger", "none">>, <<"logger", "logger">>})
      => /\ Len(events') = Len(events) + 1
         /\ SubSeq(events', 1, Len(events)) = events
         /\ events'[Len(events')].details.success = (resp'.audited.kind = "return") ]_vars

\* the sheets the claim expects for the metadata and the values calls of b
ExpectedSheets(b) ==
  LET sheets == DictGet(b.get.value, "sheets", PyList(<< >>)).v
  IN PyList([i \in 1..Len(sheets) |->
       PyDict(<< <<"name", DictGet(DictGet(sheets[i], "properties", PyDict(<< >>)),
                                 "title", PyStr("Unknown Sheet"))>>,
               <<"values", IF b.values[i] THEN PyList(<< PyList(<< PyStr("a"), PyStr("b") >>) >>)
                           ELSE PyList(<< >>)>> >>)])

\* the response r carries the error of a failed request, and no result
FetchFailed(r) ==
  \/ r.status = 500
  \/ /\ r.body.t = "dict" /\ HasKey(r.body, "error") /\ ~HasKey(r.body, "metadata")

\* C30: a /fetch that reaches the backend.  When both metadata calls succeed
\* the result lists every sheet of the metadata in order, with empty values
\* for a sheet whose values call failed, and total_sheets and sheet_names
\* count them all; when a metadata call fails the request fails.
C30_SheetFailureTolerated ==
  [][ (response' # response /\ response'.entry = "fetch"
       /\ ~Falsy(DictGet(response'.request, "id", PyStr("")))
       /\ SHEETS_AVAILABLE /\ spreadsheet_context)
      => LET b == response'.backend
             body == response'.body
             expected == ExpectedSheets(b)
             n == Len(expected.v)
             metadata == DictGet(body, "metadata", PyNone)
         IN IF b.get.ok /\ b.file.ok
            THEN /\ response'.status = 200 /\ ~HasKey(body, "error")
                 /\ DictGet(metadata, "total_sheets", PyNone) = PyInt(n)
                 /\ DictGet(metadata, "sheet_names", PyNone)
                      = PyList([i \in 1..n |-> DictGet(expected.v[i], "name", PyNone)])
                 /\ DictGet(body, "text", PyNone)
                      = PyStr(json_dumps(PyDict(<<
                          <<"spreadsheet_title", DictGet(body, "title", PyNone)>>,
                          <<"sheets", expected>>,
                          <<"total_sheets", PyInt(n)>> >>)))
            ELSE FetchFailed(response') ]_vars

\* C30 witness: a spreadsheet of two sheets was fetched, the values call of
\* one sheet failed, and the result still lists both sheets.
C30_Witness ==
  IF response.entry = "fetch" /\ response.status = 200 /\ response.body.t = "dict"
  THEN /\ response.backend.get.ok /\ response.backend.file.ok
       /\ Len(response.backend.values) = 2
       /\ \E i \in 1..2 : ~response.backend.values[i]
       /\ HasKey(response.body, "metadata")
       /\ DictGet(DictGet(response.body, "metadata", PyNone), "total_sheets", PyNone) = PyInt(2)
       /\ response.calls = 4
  ELSE FALSE
====
